---- MODULE Spec2Model ----
(***************************************************************************)
(* The schematic connection graph of climact-alpha: vertices, their        *)
(* handles, the edges (VectorItem) that pair two handles, the free / pair  *)
(* protocol of HandleItem and the resize clamp of VertexItem.              *)
(*                                                                         *)
(* Coordinates are integers (the program uses floats; every value used     *)
(* here is exactly representable).  None is 0; handles, edges and vertices *)
(* are numbered from 1 in the order they are constructed.                  *)
(***************************************************************************)
EXTENDS Integers, Sequences, FiniteSets, TLC

\* ------------------------------------------------------------------ bounds
\* The connection specification: vertices, handles and edges constructed.
NumVertices == 2
NumHandles == 2
NumEdges == 1
\* The wide connection specification: handles and edges constructed.
WideHandles == 3
WideEdges == 2
\* The resize specification: vertices and handles constructed.
ResizeVertices == 1
ResizeHandles == 2
\* The path specification: handles constructed.
PathHandles == 3
CanvasHandles == 3
\* The event-bus specification: subscribers connected and messages sent.
NumSubscribers == 2
MaxSends == 2
\* The tab specification: tab widgets, widgets offered by callers, and
\* pages (default views) the tab widgets construct themselves.
NumTabWidgets == 1
NumWidgets == 1
MaxViews == 9
\* The default views a tab widget constructs in the message specifications.
FewViews == 3
\* Requests made of one animation.
MaxRequests == 2

\* ------------------------------------------------------- program constants
\* VERTEX_OPTS["frame"] = QRectF(-36, -40, 72, 68): left, right and bottom.
FrameLeft == -36
FrameRight == 36
FrameBottom == 28
\* The margin between the frame bottom and the lowest handle / the rails.
Margin == 6
\* AnchorOpts["frame"] = QRectF(-1, -18, 2, 32): top and initial bottom.
AnchorTop == -18
AnchorBottom == 14
\* -float("inf") / float("inf"): the y-bounds of a handle before _set_limit.
NegInf == -1000000
PosInf == 1000000
\* EdgeOpts["slack"] = 0.40 as the fraction SlackNum / SlackDen, and the
\* factor applied to it for a backwards connection; the vertical offset of
\* the control points is 0.25 = 1 / QuarterDen.
SlackNum == 2
SlackDen == 5
BackFactor == -10
QuarterDen == 4
\* TAB_VIEW_OPTS["max-tabs"].
MaxTabs == 8

None == 0
V == 1..NumVertices
H == 1..WideHandles
E == 1..WideEdges
TW == 1..NumTabWidgets
\* The widgets callers offer to a tab widget; default views get the numbers
\* above them.
W == 1..NumWidgets
Animations == {"handle.radius", "edge.thickness", "view.zoom", "view.center"}

\* Inputs of the connection specification: y-offsets of a clicked rail.
ConnYs == {0}
\* Inputs of the resize specification: y-offsets of handles created
\* programmatically and positions the resize affordance is dragged to.
Ys == {10, 40}
DragXs == {0, 5}
DragYs == {-20, 34, 52}
\* Inputs of the drag specification: the y-offset of a handle created
\* programmatically, the positions a handle is dragged to (in its vertex's
\* coordinates), the mouse buttons, and where the resize affordance goes.
AboveRailYs == {-30}
\* Inputs of the path specification: the scene positions of vertices and
\* the positions a handle is set to (in its vertex's coordinates).
VertexAt == {<<0, 0>>, <<72, 10>>}
HandleAt == {<<36, 20>>}
MoveTo == {<<-36, 10>>, <<-30, 60>>}
Buttons == {"left", "middle"}
GrowYs == {52}

VARIABLES
    vertex,    \* [V -> vertex record]
    handle,    \* [H -> handle record]
    edge,      \* [E -> edge record]
    stack,     \* call stack of HandleItem.free: frames [h, mirror, pc]
    freeLog,   \* the free invocations of the latest top-level free call
    resetLog,  \* the handles whose fields that call reset, in order
    last,      \* the latest completed operation and its arguments
    bus,       \* the EventBus class and its instance, subscribers, sends
    tabs,      \* [TW -> tab widget record]
    anim,      \* [animation -> QPropertyAnimation record]
    canvas     \* the canvas: its pending connection and its click wirings

vars == <<vertex, handle, edge, stack, freeLog, resetLog, last, bus, tabs,
          anim, canvas>>

\* The variables of the connection graph and those of the application shell.
GraphVars == <<vertex, handle, edge, stack, freeLog, resetLog, last>>
AppVars == <<bus, tabs, anim, canvas>>

\* ----------------------------------------------------------------- helpers
Max(a, b) == IF a >= b THEN a ELSE b
SetMax(S) == CHOOSE m \in S : \A x \in S : x <= m

NoVertex ==
    [exists |-> FALSE, inScene |-> FALSE, pos |-> <<0, 0>>, bottom |-> 0,
     limit |-> 0, resizeX |-> 0, resizeY |-> 0, inpBottom |-> 0,
     outBottom |-> 0]

NoHandle ==
    [exists |-> FALSE, role |-> "INP", owner |-> None, x |-> 0, y |-> 0,
     xpos |-> 0, db |-> "none",
     ymin |-> NegInf, ymax |-> PosInf, connected |-> FALSE,
     connector |-> None, conjugate |-> None, connections |-> {},
     movable |-> FALSE, buttons |-> {}, flow |-> FALSE]

NoEdge ==
    [exists |-> FALSE, origin |-> None, target |-> None, visible |-> FALSE,
     route |-> <<>>, arrow |-> <<>>, listens |-> FALSE]

\* The EventBus class attribute _instance, the EventBus objects allocated
\* (numbered from 1), those with _initialized set, the runs of
\* QObject.__init__, and the objects handed to callers; the slots connected
\* to `instruction` in connection order, the running emissions and handlers
\* (innermost last), the deliveries posted to the event loop, and for the
\* latest top-level send: the number of messages sent during it, what the
\* callers asked to send, and its trace.
NoBus ==
    [instance |-> None, objects |-> 0, initialized |-> {}, inits |-> 0,
     returned |-> {}, subs |-> <<>>, stack |-> <<>>, queue |-> <<>>,
     sent |-> 0, asked |-> <<>>, log |-> <<>>]

\* A tab widget: its pages (widgets, in tab order), the current index (-1
\* without pages), the default views it has constructed, and whether it
\* has had a first tab.
NoTabWidget ==
    [exists |-> FALSE, kind |-> "TabbedWidget", pages |-> <<>>,
     current |-> -1, views |-> 0, opened |-> FALSE]

\* ------------------------------------------------------ decimal numbers
\* The animated values are floats. The model holds each as an exact
\* decimal: the digits of a whole number, least significant first and
\* without leading zeros, and how many of them are decimal places, as few
\* as the value allows (0.515 is [n |-> <<5, 1, 5>>, p |-> 3], 2 is
\* [n |-> <<2>>, p |-> 0], 0 is [n |-> <<>>, p |-> 0]).

\* The digits of the number whose i-th digit position holds ds[i], any
\* whole number, and which has c carried into its first position.
RECURSIVE Carry(_, _)
Carry(ds, c) ==
    IF ds = <<>>
    THEN IF c = 0 THEN <<>> ELSE <<c % 10>> \o Carry(<<>>, c \div 10)
    ELSE <<(ds[1] + c) % 10>> \o Carry(Tail(ds), (ds[1] + c) \div 10)

\* The digits without leading zeros.
RECURSIVE Trim(_)
Trim(ds) ==
    IF ds # <<>> /\ ds[Len(ds)] = 0
    THEN Trim(SubSeq(ds, 1, Len(ds) - 1))
    ELSE ds

\* The decimal without leading zeros and without trailing decimal zeros.
RECURSIVE Normal(_)
Normal(d) ==
    LET n == Trim(d.n)
    IN  IF d.p > 0 /\ (n = <<>> \/ n[1] = 0)
        THEN Normal([n |-> IF n = <<>> THEN n ELSE Tail(n), p |-> d.p - 1])
        ELSE [n |-> n, p |-> d.p]

\* The decimal i / 10^p of a natural number i.
Decimal(i, p) == Normal([n |-> Carry(<<i>>, 0), p |-> p])

\* The digits of d written with p >= d.p decimal places.
Raw(d, p) == [i \in 1..(p - d.p) |-> 0] \o d.n

\* a + sign * b, for sign 1 or -1 and a result that is not negative.
Sum(a, sign, b) ==
    LET p == IF a.p > b.p THEN a.p ELSE b.p
        x == Raw(a, p)
        y == Raw(b, p)
        len == IF Len(x) > Len(y) THEN Len(x) ELSE Len(y)
    IN  Normal([n |-> Carry([i \in 1..len |->
                                (IF i <= Len(x) THEN x[i] ELSE 0)
                                + sign * (IF i <= Len(y) THEN y[i] ELSE 0)],
                            0),
                p |-> p])

\* a * m / 10^k, for a natural number m.
Times(a, m, k) ==
    Normal([n |-> Carry([i \in 1..Len(a.n) |-> a.n[i] * m], 0),
            p |-> a.p + k])

\* a < b: both written with the same number of decimal places and without
\* leading zeros, the shorter is the lesser, and of two of one length the
\* one with the lesser digit at the most significant place they differ in.
Less(a, b) ==
    LET p == IF a.p > b.p THEN a.p ELSE b.p
        x == Trim(Raw(a, p))
        y == Trim(Raw(b, p))
    IN  IF Len(x) # Len(y)
        THEN Len(x) < Len(y)
        ELSE \E i \in 1..Len(x) :
                 /\ x[i] < y[i]
                 /\ \A j \in (i + 1)..Len(x) : x[j] = y[j]

\* ------------------------------------------------------- animated values
\* In tenths: the radius of a handle and what a hover adds to it, the
\* stroke width of an edge and what a hover adds to it. In thousandths:
\* the zoom of a view at construction (1.0) and its limits (0.2 and 2.0).
HandleRadius == 15
RadiusGrow == 5
BaseWidth == 20
WidthGrow == 20
ZoomStart == 1000
ZoomMin == 200
ZoomMax == 2000

\* The timer of a running animation is observed twice in the animation's
\* duration: half-way, and at its end.
AnimSteps == 2

\* A QPropertyAnimation of a property: its easing curve, its state, its
\* start and end values, its current time in steps, the property's value,
\* whether the item is hovered, whether the latest start and end values
\* were assigned while it was running, and the number of requests made of
\* it.
NoAnim == [curve |-> "Linear", state |-> "Stopped",
           startValue |-> Decimal(0, 0), endValue |-> Decimal(0, 0),
           time |-> 0, value |-> Decimal(0, 0), hovered |-> FALSE,
           retargeted |-> FALSE, requests |-> 0]

\* The curve set on the property's animation when its item is constructed.
EasingCurve(p) ==
    CASE p = "handle.radius" -> "OutQuad"
      [] p = "edge.thickness" -> "InOutSine"
      [] p = "view.zoom" -> "OutExpo"
      [] p = "view.center" -> "InOutCubic"

\* The property's value when its item is constructed; the view is centred
\* on the scene point 0.
InitialValue(p) ==
    CASE p = "handle.radius" -> Decimal(HandleRadius, 1)
      [] p = "edge.thickness" -> Decimal(BaseWidth, 1)
      [] p = "view.zoom" -> Decimal(ZoomStart, 3)
      [] OTHER -> Decimal(0, 0)

NoOp == [op |-> "none", a |-> None, b |-> None, e |-> None, m |-> FALSE,
         p |-> FALSE, d |-> 0, r |-> "", n |-> 0]

Op(name) == [NoOp EXCEPT !.op = name]

\* A canvas with no pending connection and no click signal connected to its
\* begin_transient: wired counts the connections of a vertex's
\* sig_handle_clicked, direct those of a handle's sig_handle_clicked.
NoCanvas ==
    [state |-> "IDLE", pending |-> None,
     wired |-> [v \in V |-> 0], direct |-> [h \in H |-> 0]]

\* The handles registered in a vertex's database (inp and out together).
Database(hs, v) == {h \in H : hs[h].exists /\ hs[h].owner = v}

\* The next unused handle / edge / vertex number, None when the pool is full.
Count(f, S) == Cardinality({i \in S : f[i].exists})
NextHandle == IF Count(handle, H) < WideHandles
              THEN Count(handle, H) + 1 ELSE None
NextEdge == IF Count(edge, E) < WideEdges THEN Count(edge, E) + 1 ELSE None
NextVertex == IF Count(vertex, V) < NumVertices
              THEN Count(vertex, V) + 1 ELSE None

\* No call of HandleItem.free is in progress: handlers run to completion on
\* the one UI thread before the next event is dispatched.
Idle == stack = <<>>

\* freeLog and resetLog describe the latest operation when it was a call of
\* free; any other operation empties them.
ClearLogs == freeLog' = <<>> /\ resetLog' = <<>>

\* -------------------------------------------------------- vertex geometry
\* VertexItem.on_resize_handle_moved, the clamp: the new frame bottom from
\* the resize affordance's y, the handles' y-offsets and the floor limit.
frame_bottom_NoMargin(resizeY, ys, limit) ==
    LET floor == IF ys = {} THEN limit ELSE SetMax(ys)
    IN  Max(resizeY, Max(floor, limit))
frame_bottom_HandlesOnly(resizeY, ys, limit) ==
    LET floor == IF ys = {} THEN limit ELSE SetMax(ys)
    IN  Max(resizeY, floor + Margin)
frame_bottom_NoFloor(resizeY, ys, limit) ==
    Max(resizeY, limit + Margin)
frame_bottom(resizeY, ys, limit) ==
    LET floor == IF ys = {} THEN limit ELSE SetMax(ys)
    IN  Max(resizeY, Max(floor, limit) + Margin)

\* VertexItem._set_limit: ymin is the top of the input rail mapped to the
\* vertex (the rail sits at y = 0), ymax the frame bottom less the margin.
set_limit_KeepsMax(vs, v, hrec) ==
    [hrec EXCEPT !.ymin = AnchorTop]
set_limit(vs, v, hrec) ==
    [hrec EXCEPT !.ymin = AnchorTop, !.ymax = vs[v].bottom - Margin]

\* VertexItem.on_resize_handle_moved, run on ItemPositionHasChanged of the
\* resize affordance.  setX(0) and setY(bottom) raise that notification
\* again when they change the position, which re-enters the handler before
\* the outer call goes on; calls counts the handler's invocations.
\* (A result r0 is bound once, as the element of {r0}, before it is used.)
\* The tail of the handler: the rails resized and every handle re-bounded.
rebound(r0, v, calls) ==
    CHOOSE out \in
        {LET vs == [r.vertex EXCEPT
                        ![v].inpBottom = r.vertex[v].bottom - Margin,
                        ![v].outBottom = r.vertex[v].bottom - Margin]
         IN  [vertex |-> vs,
              handle |-> [h \in H |-> IF h \in Database(r.handle, v)
                                      THEN set_limit(vs, v, r.handle[h])
                                      ELSE r.handle[h]],
              calls |-> calls + r.calls + 1] : r \in {r0}} : TRUE

RECURSIVE on_resize_handle_moved(_, _, _)
\* setY(frame.bottom()), after setX(0) returned r0.
reposition_y(r0, v) ==
    CHOOSE out \in
        {IF r.vertex[v].resizeY # r.vertex[v].bottom
         THEN rebound(on_resize_handle_moved(
                          [r.vertex EXCEPT ![v].resizeY = r.vertex[v].bottom],
                          r.handle, v), v, r.calls)
         ELSE rebound([r EXCEPT !.calls = 0], v, r.calls) : r \in {r0}} : TRUE

\* setX(0), after the frame bottom was set in vs.
reposition_x_KeepsX(vs, hs, v) ==
    reposition_y([vertex |-> vs, handle |-> hs, calls |-> 0], v)
reposition_x(vs, hs, v) ==
    IF vs[v].resizeX # 0
    THEN reposition_y(
             on_resize_handle_moved([vs EXCEPT ![v].resizeX = 0], hs, v), v)
    ELSE reposition_y([vertex |-> vs, handle |-> hs, calls |-> 0], v)

on_resize_handle_moved(vs, hs, v) ==
    reposition_x(
        [vs EXCEPT ![v].bottom =
             frame_bottom(vs[v].resizeY,
                          {hs[h].y : h \in Database(hs, v)}, vs[v].limit)],
        hs, v)

\* VertexItem.__init__, the vertex at cpos and in no scene: the frame and
\* limit of VERTEX_OPTS, the two rails, and the resize affordance moved to
\* the frame bottom, which runs the resize handler.
VertexInit(cpos) ==
    /\ Idle
    /\ NextVertex # None
    /\ LET v == NextVertex
           v0 == [vertex EXCEPT ![v] =
                     [exists |-> TRUE, inScene |-> FALSE, pos |-> cpos,
                      bottom |-> FrameBottom, limit |-> FrameBottom,
                      resizeX |-> 0, resizeY |-> FrameBottom,
                      inpBottom |-> AnchorBottom, outBottom |-> AnchorBottom]]
       IN  \E r \in {on_resize_handle_moved(v0, handle, v)} :
               /\ vertex' = r.vertex
               /\ handle' = r.handle
               /\ last' = [Op("vertex") EXCEPT !.a = v, !.n = r.calls]
    /\ ClearLogs
    /\ UNCHANGED <<edge, stack>>
    /\ UNCHANGED AppVars

\* The user drags the resize affordance of vertex v to (dx, d): the item's
\* position changes and ResizeHandle.itemChange emits
\* sig_resize_handle_moved, which runs VertexItem.on_resize_handle_moved.
ResizeHandleMoved(v, dx, d) ==
    /\ Idle
    /\ vertex[v].exists /\ vertex[v].inScene
    /\ <<dx, d>> # <<vertex[v].resizeX, vertex[v].resizeY>>
    /\ LET v0 == [vertex EXCEPT ![v].resizeX = dx, ![v].resizeY = d]
       IN  \E r \in {on_resize_handle_moved(v0, handle, v)} :
               /\ vertex' = r.vertex
               /\ handle' = r.handle
               /\ last' = [Op("resize") EXCEPT !.a = v, !.d = d,
                                               !.n = r.calls]
    /\ ClearLogs
    /\ UNCHANGED <<edge, stack>>
    /\ UNCHANGED AppVars

\* ------------------------------------------------------- handle creation
\* The role argument of create_handle: a member of HandleRole, or a string.
\* A handle's role is the member's name.
Enum(name) == [str |-> FALSE, name |-> name]
Str(s) == [str |-> TRUE, name |-> s]

\* create_handle's conversion of a string role: anything but "INP"
\* (compared in upper case) is an output; a member of HandleRole is kept.
\* str.upper() maps each lower-case letter to its capital and keeps every
\* other character.
UpperOf ==
          "a" :> "A" @@  "b" :> "B" @@  "c" :> "C" @@  "d" :> "D" @@
          "e" :> "E" @@  "f" :> "F" @@  "g" :> "G" @@  "h" :> "H" @@
          "i" :> "I" @@  "j" :> "J" @@  "k" :> "K" @@  "l" :> "L" @@
          "m" :> "M" @@  "n" :> "N" @@  "o" :> "O" @@  "p" :> "P" @@
          "q" :> "Q" @@  "r" :> "R" @@  "s" :> "S" @@  "t" :> "T" @@
          "u" :> "U" @@  "v" :> "V" @@  "w" :> "W" @@  "x" :> "X" @@
          "y" :> "Y" @@  "z" :> "Z"
RECURSIVE Upper(_)
Upper(s) ==
    IF Len(s) = 0
    THEN ""
    ELSE LET c == SubSeq(s, 1, 1)
         IN  (IF c \in DOMAIN UpperOf THEN UpperOf[c] ELSE c)
                 \o Upper(SubSeq(s, 2, Len(s)))
role_of(r) == IF r.str
              THEN IF Upper(r.name) = "INP" THEN "INP" ELSE "OUT"
              ELSE r.name

\* HandleItem.__init__: the state of a new handle of vertex v.
HandleInit(role, cpos, v) ==
    [NoHandle EXCEPT !.exists = TRUE, !.role = role, !.owner = v,
                     !.x = cpos[1], !.y = cpos[2], !.xpos = cpos[1]]

\* VertexItem.create_handle(role, cpos): a new handle of the converted
\* role, registered in the vertex's input or output set by that role.
create_handle_Unconverted(hs, v, r, cpos) ==
    [hs EXCEPT ![NextHandle] =
        [HandleInit(role_of(r), cpos, v) EXCEPT
            !.db = IF ~r.str /\ r.name = "INP" THEN "inp" ELSE "out"]]
create_handle(hs, v, r, cpos) ==
    LET role == role_of(r)
    IN  [hs EXCEPT ![NextHandle] =
            [HandleInit(role, cpos, v) EXCEPT
                !.db = IF role = "INP" THEN "inp" ELSE "out"]]

\* A call of create_handle; the record keeps the new handle, the role
\* argument's text and whether it was a string.
CreateHandle(v, r, cpos) ==
    /\ Idle
    /\ vertex[v].exists
    /\ NextHandle # None
    /\ handle' = create_handle(handle, v, r, cpos)
    /\ last' = [Op("handle") EXCEPT !.a = NextHandle, !.m = r.str,
                                    !.r = r.name]
    /\ ClearLogs
    /\ UNCHANGED <<vertex, edge, stack>>
    /\ UNCHANGED AppVars

\* The x of the rail of a role, in the vertex's coordinates.
AnchorX(role) == IF role = "INP" THEN FrameLeft ELSE FrameRight
RailBottom(v, role) ==
    IF role = "INP" THEN vertex[v].inpBottom ELSE vertex[v].outBottom

Init ==
    /\ vertex = [v \in V |-> NoVertex]
    /\ handle = [h \in H |-> NoHandle]
    /\ edge = [e \in E |-> NoEdge]
    /\ stack = <<>>
    /\ freeLog = <<>>
    /\ resetLog = <<>>
    /\ last = NoOp
    /\ canvas = NoCanvas
    /\ bus = NoBus
    /\ tabs = [w \in TW |-> NoTabWidget]
    /\ anim = [p \in Animations |->
                  [NoAnim EXCEPT !.curve = EasingCurve(p),
                                 !.value = InitialValue(p)]]

\* ------------------------------------------------------------ edge paths
\* The scene position of a handle: its position in its vertex, mapped by
\* the vertex's scene position.
scenePos(vs, hs, h) ==
    <<vs[hs[h].owner].pos[1] + hs[h].x, vs[hs[h].owner].pos[2] + hs[h].y>>

\* VectorItem.construct_path: the cubic from `initial` to `final`.  The
\* control points are kept as exact fractions, x over SlackDen and y over
\* QuarterDen, so slack 0.40 and the offset 0.25 need no rounding.
construct_path_NoBackwards(initial, final) ==
    LET num == SlackNum
        dx == final[1] - initial[1]
        dy == final[2] - initial[2]
    IN  [start |-> initial,
         c1 |-> <<SlackDen * initial[1] + dx * num,
                  QuarterDen * initial[2] + dy>>,
         c2 |-> <<SlackDen * initial[1] + dx * (SlackDen - num),
                  QuarterDen * final[2] - dy>>,
         end |-> final]
construct_path(initial, final) ==
    LET num == IF initial[1] < final[1]
               THEN SlackNum ELSE BackFactor * SlackNum
        dx == final[1] - initial[1]
        dy == final[2] - initial[2]
    IN  [start |-> initial,
         c1 |-> <<SlackDen * initial[1] + dx * num,
                  QuarterDen * initial[2] + dy>>,
         c2 |-> <<SlackDen * initial[1] + dx * (SlackDen - num),
                  QuarterDen * final[2] - dy>>,
         end |-> final]

\* VectorItem.update_path(origin, target) with two graphics objects: the
\* route from their scene positions; the arrow is placed at 60% of that
\* route (arrow holds the route the arrow was last placed on).
update_path_Appends(vs, hs, erec, origin, target) ==
    LET route == construct_path(scenePos(vs, hs, origin),
                                scenePos(vs, hs, target))
    IN  [erec EXCEPT !.route = IF DOMAIN erec.route = {} THEN route
                               ELSE [route EXCEPT !.start = erec.route.end],
                     !.arrow = route]
update_path(vs, hs, erec, origin, target) ==
    LET route == construct_path(scenePos(vs, hs, origin),
                                scenePos(vs, hs, target))
    IN  [erec EXCEPT !.route = route, !.arrow = route]

\* VectorItem.clear(): the route is an empty path and the arrow is back at
\* the edge's origin of coordinates; the endpoints are kept.
clear(erec) == [erec EXCEPT !.route = <<>>, !.arrow = <<>>]

\* ------------------------------------------------------- pairing protocol
\* The names class HandleItem defines.
HandleItemMethods ==
    {"__init__", "__getitem__", "__setitem__", "_init_menu", "_init_anim",
     "boundingRect", "paint", "itemChange", "contextMenuEvent",
     "hoverEnterEvent", "hoverLeaveEvent", "mousePressEvent",
     "mouseReleaseEvent", "on_set_stream", "pair", "free", "is_connectable",
     "radius"}

\* HandleItem.pair(connector, conjugate).
pair(hrec, connector, conjugate) ==
    [hrec EXCEPT !.connected = TRUE, !.connector = connector,
                 !.conjugate = conjugate]

\* HandleItem.is_connectable.
is_connectable(hrec) ==
    IF hrec.connected THEN TRUE ELSE Cardinality(hrec.connections) = 0

\* The precondition under which the canvas offers a pairing (section 4.1 of
\* the specification), over the handles hs: different vertices, opposite
\* roles, and each handle reports connectable.  It is the canvas's check
\* in begin_transient; VectorItem makes no such check.
compatible(hs, a, b) ==
    /\ hs[a].exists /\ hs[b].exists
    /\ hs[a].owner # hs[b].owner
    /\ hs[a].role # hs[b].role
    /\ is_connectable(hs[a]) /\ is_connectable(hs[b])

\* VectorItem._connect(origin, target), of the edge e that __init__ is
\* building, as far as it runs.  The colour is read from the origin's
\* attr["flow"], a key HandleItem.__init__ does not set: without it the
\* lookup raises KeyError before anything is done and the edge, which
\* nothing references, is gone.  With it the path is built and both handles
\* are paired, and then target.set_stream is looked up, a name HandleItem
\* does not define: AttributeError is raised before on_endpoint_shifted is
\* connected to the handles' sig_handle_moved (listens stays FALSE); the
\* handles keep the edge as their connector.
connect(vs, hs, erec, e, origin, target) ==
    LET made == update_path(vs, hs,
                    [erec EXCEPT !.origin = origin, !.target = target],
                    origin, target)
        paired == [hs EXCEPT ![origin] = pair(hs[origin], e, target),
                             ![target] = pair(hs[target], e, origin)]
    IN  IF ~hs[origin].flow
        THEN [raised |-> "KeyError", edge |-> NoEdge, handle |-> hs]
        ELSE IF "set_stream" \notin HandleItemMethods
        THEN [raised |-> "AttributeError", edge |-> made, handle |-> paired]
        ELSE [raised |-> "", edge |-> [made EXCEPT !.listens = TRUE],
              handle |-> paired]

\* h.attr["flow"] = a flow, assigned by the caller: attr is a plain dict and
\* no code of HandleItem or VertexItem gives it the key.
SetFlow(h) ==
    /\ Idle
    /\ handle[h].exists /\ ~handle[h].flow
    /\ handle' = [handle EXCEPT ![h].flow = TRUE]
    /\ last' = [Op("flow") EXCEPT !.a = h]
    /\ ClearLogs
    /\ UNCHANGED <<vertex, edge, stack>>
    /\ UNCHANGED AppVars

\* VectorItem(origin=a, target=b): a new visible edge, whose __init__ runs
\* _connect at once.  __init__ takes any two HandleItem instances: handles
\* of one role, of one vertex, or the same handle twice.  The record keeps
\* the exception the call raised, the edge, when one is left, and whether
\* the two handles were compatible when the call was made.
CreateEdge(a, b) ==
    /\ Idle
    /\ NextEdge # None
    /\ handle[a].exists /\ handle[b].exists
    /\ LET e == NextEdge
       IN  \E r \in {connect(vertex, handle,
                             [NoEdge EXCEPT !.exists = TRUE,
                                            !.visible = TRUE],
                             e, a, b)} :
               /\ edge' = [edge EXCEPT ![e] = r.edge]
               /\ handle' = r.handle
               /\ last' = [Op("edge") EXCEPT
                              !.a = a, !.b = b, !.r = r.raised,
                              !.p = compatible(handle, a, b),
                              !.e = IF r.edge.exists THEN e ELSE None]
    /\ ClearLogs
    /\ UNCHANGED <<vertex, stack>>
    /\ UNCHANGED AppVars

\* HandleItem.free, its parts.  The condition of the mirror branch:
free_mirrors_Never(hrec, mirror) == FALSE
free_mirrors(hrec, mirror) ==
    mirror /\ hrec.connector # None /\ hrec.conjugate # None

\* the mirror argument of the nested call on the conjugate:
NestedMirror == FALSE

\* and the reset of the handle's own fields.
free_reset_KeepsPartner(hrec) ==
    [hrec EXCEPT !.connected = FALSE]
free_reset(hrec) ==
    [hrec EXCEPT !.connected = FALSE, !.connector = None,
                 !.conjugate = None]

\* QGraphicsItem.hide() on the connector.
hide(es, e) == [es EXCEPT ![e].visible = FALSE]

Mutual(a) ==
    /\ handle[a].connected
    /\ handle[a].conjugate # None /\ handle[a].connector # None
    /\ handle[handle[a].conjugate].connected
    /\ handle[handle[a].conjugate].conjugate = a
    /\ handle[handle[a].conjugate].connector = handle[a].connector

\* A call h.free(mirror) from outside (the "Unpair" menu entry, or a direct
\* call): the frame is pushed, FreeStep runs it.  Until the call returned
\* no other operation is enabled, so the call is one uninterrupted unit.
FreeCall(h, mirror) ==
    /\ Idle
    /\ handle[h].exists
    /\ stack' = <<[h |-> h, mirror |-> mirror, pc |-> "enter"]>>
    /\ freeLog' = <<[h |-> h, mirror |-> mirror]>>
    /\ resetLog' = <<>>
    /\ last' = [Op("freeing") EXCEPT !.a = h, !.b = handle[h].conjugate,
                                     !.e = handle[h].connector,
                                     !.m = mirror, !.p = Mutual(h)]
    /\ UNCHANGED <<vertex, handle, edge>>
    /\ UNCHANGED AppVars

\* One step of the innermost running call of free: either the mirror
\* branch (hide the connector, call free on the conjugate) or, on entry
\* without the branch or after the nested call returned, the reset of the
\* handle's fields and the return.
FreeStep ==
    /\ stack # <<>>
    /\ LET n == Len(stack)
           f == stack[n]
           hr == handle[f.h]
       IN  IF f.pc = "enter" /\ free_mirrors(hr, f.mirror)
           THEN /\ edge' = hide(edge, hr.connector)
                /\ stack' = Append([stack EXCEPT ![n].pc = "reset"],
                                   [h |-> hr.conjugate,
                                    mirror |-> NestedMirror, pc |-> "enter"])
                /\ freeLog' = Append(freeLog, [h |-> hr.conjugate,
                                               mirror |-> NestedMirror])
                /\ UNCHANGED <<vertex, handle, resetLog, last>>
                /\ UNCHANGED AppVars
           ELSE /\ handle' = [handle EXCEPT ![f.h] = free_reset(hr)]
                /\ stack' = SubSeq(stack, 1, n - 1)
                /\ resetLog' = Append(resetLog, f.h)
                /\ last' = IF n = 1 THEN [last EXCEPT !.op = "free"] ELSE last
                /\ UNCHANGED <<vertex, edge, freeLog>>
                /\ UNCHANGED AppVars

\* ----------------------------------------------------- pending connection
\* Canvas.begin_transient(h), one invocation (section 4.1): IDLE is armed
\* with h; ARMED with a makes the edge VectorItem(origin=a, target=h) when
\* the two are compatible and goes back to IDLE either way.  r0 holds the
\* canvas, the handles, the edges and the count of invocations so far.
begin_transient(r0, h) ==
    CHOOSE out \in
        {IF r.canvas.state = "IDLE"
         THEN [r EXCEPT !.canvas.state = "ARMED", !.canvas.pending = h,
                        !.calls = @ + 1]
         ELSE LET a == r.canvas.pending
                  e == Count(r.edge, E) + 1
                  idle == [r.canvas EXCEPT !.state = "IDLE",
                                           !.pending = None]
              IN  IF compatible(r.handle, a, h) /\ e \in E
                  THEN LET c == connect(vertex, r.handle,
                                        [NoEdge EXCEPT !.exists = TRUE,
                                                       !.visible = TRUE],
                                        e, a, h)
                       IN  [canvas |-> idle, handle |-> c.handle,
                            edge |-> [r.edge EXCEPT ![e] = c.edge],
                            calls |-> r.calls + 1]
                  ELSE [r EXCEPT !.canvas = idle, !.calls = @ + 1]
         : r \in {r0}} : TRUE

\* The emission of a click signal that has n connections to begin_transient:
\* the slots run one after the other, each to completion.
RECURSIVE emit_clicked(_, _, _)
emit_clicked(r0, h, n) ==
    IF n = 0 THEN r0 ELSE emit_clicked(begin_transient(r0, h), h, n - 1)

\* The connections to begin_transient that a click on handle h reaches:
\* those of its vertex's sig_handle_clicked, to which the handle's signal is
\* connected as the callback, then the handle's own.
click_slots(c, hs, h) == c.wired[hs[h].owner] + c.direct[h]

\* scene.addItem(vertex).  On a canvas (a scene with begin_transient)
\* VertexItem.itemChange connects the vertex's sig_handle_clicked to
\* begin_transient, and HandleItem.itemChange of every handle the vertex
\* already has connects that handle's sig_handle_clicked to it as well; on
\* any other scene nothing is connected.
addItem(c, hs, v, kind) ==
    IF kind = "canvas"
    THEN [c EXCEPT !.wired[v] = @ + 1,
                   !.direct = [h \in H |-> IF h \in Database(hs, v)
                                           THEN c.direct[h] + 1
                                           ELSE c.direct[h]]]
    ELSE c

AddItem(v, kind) ==
    /\ Idle
    /\ vertex[v].exists /\ ~vertex[v].inScene
    /\ vertex' = [vertex EXCEPT ![v].inScene = TRUE]
    /\ canvas' = addItem(canvas, handle, v, kind)
    /\ last' = [Op("add") EXCEPT !.a = v]
    /\ ClearLogs
    /\ UNCHANGED <<handle, edge, stack, bus, tabs, anim>>

\* VertexItem.on_anchor_clicked: a click at height y on the rail of `role`
\* creates a handle there and sets its y-bounds; the vertex then emits
\* sig_handle_clicked for it.
AnchorClicked(v, role, y) ==
    /\ Idle
    /\ vertex[v].exists /\ vertex[v].inScene
    /\ NextHandle # None
    /\ AnchorTop <= y /\ y <= RailBottom(v, role)
    /\ LET h == NextHandle
           hs == create_handle(handle, v, Enum(role), <<AnchorX(role), y>>)
           r0 == [canvas |-> canvas,
                  handle |-> [hs EXCEPT ![h] = set_limit(vertex, v, hs[h])],
                  edge |-> edge, calls |-> 0]
       IN  \E r \in {emit_clicked(r0, h, canvas.wired[v])} :
               /\ handle' = r.handle
               /\ edge' = r.edge
               /\ canvas' = r.canvas
               /\ last' = [Op("anchor") EXCEPT !.a = h, !.n = r.calls]
    /\ ClearLogs
    /\ UNCHANGED <<vertex, stack, bus, tabs, anim>>

\* A click elsewhere cancels the pending connection (section 4.1).
Cancel ==
    /\ Idle
    /\ canvas.state = "ARMED"
    /\ canvas' = [canvas EXCEPT !.state = "IDLE", !.pending = None]
    /\ last' = Op("cancel")
    /\ ClearLogs
    /\ UNCHANGED <<vertex, handle, edge, stack, bus, tabs, anim>>

\* ----------------------------------------------------------- handle drags
\* sig_handle_moved of handle h is emitted: VectorItem.on_endpoint_shifted
\* runs for every edge that _connect connected to it (the connections are
\* never removed) and recomputes the path when h is one of its endpoints.
on_endpoint_shifted(vs, hs, es, h) ==
    [e \in E |-> IF /\ es[e].exists /\ es[e].listens
                    /\ h \in {es[e].origin, es[e].target}
                 THEN update_path(vs, hs, es[e], es[e].origin, es[e].target)
                 ELSE es[e]]

\* HandleItem.setPos / a move by the view: the new position, then
\* itemChange(ItemScenePositionHasChanged) emits sig_handle_moved.
set_handle_pos(vs, hs, es, h, pos) ==
    LET hs1 == [hs EXCEPT ![h].x = pos[1], ![h].y = pos[2]]
    IN  [handle |-> hs1,
         edge |-> IF pos = <<hs[h].x, hs[h].y>> THEN es
                  ELSE on_endpoint_shifted(vs, hs1, es, h)]

\* No handle other than h holds the mouse.
MouseFreeFor(h) == \A g \in H \ {h} : handle[g].buttons = {}

\* HandleItem.mousePressEvent: a left press on a handle that is not connected
\* emits sig_handle_clicked; any other press makes the handle movable.
mousePressEvent(hrec, button) ==
    IF ~hrec.connected /\ button = "left"
    THEN [hrec EXCEPT !.buttons = @ \cup {button}]
    ELSE [hrec EXCEPT !.buttons = @ \cup {button}, !.movable = TRUE]

\* A press of one button on handle h, with the emission of
\* sig_handle_clicked and the slots it runs.  The record keeps the button,
\* whether the handle was connected, whether the press was announced and
\* how often begin_transient ran.
MousePress(h, button) ==
    /\ Idle
    /\ handle[h].exists /\ vertex[handle[h].owner].inScene
    /\ MouseFreeFor(h) /\ button \notin handle[h].buttons
    /\ LET announced == ~handle[h].connected /\ button = "left"
           r0 == [canvas |-> canvas,
                  handle |-> [handle EXCEPT
                                 ![h] = mousePressEvent(handle[h], button)],
                  edge |-> edge, calls |-> 0]
       IN  \E r \in {IF announced
                      THEN emit_clicked(r0, h,
                                        click_slots(canvas, handle, h))
                      ELSE r0} :
               /\ handle' = r.handle
               /\ edge' = r.edge
               /\ canvas' = r.canvas
               /\ last' = [Op("press") EXCEPT
                               !.a = h, !.r = button, !.m = announced,
                               !.p = handle[h].connected, !.n = r.calls]
    /\ ClearLogs
    /\ UNCHANGED <<vertex, stack, bus, tabs, anim>>

\* QGraphicsItem.mouseMoveEvent (not reimplemented): the item follows the
\* mouse while the left button is down and the item is movable.
MouseMove(h, pos) ==
    /\ Idle
    /\ handle[h].exists
    /\ "left" \in handle[h].buttons /\ handle[h].movable
    /\ pos # <<handle[h].x, handle[h].y>>
    /\ LET r == set_handle_pos(vertex, handle, edge, h, pos)
       IN  handle' = r.handle /\ edge' = r.edge
    /\ last' = [Op("move") EXCEPT !.a = h]
    /\ ClearLogs
    /\ UNCHANGED <<vertex, stack>>
    /\ UNCHANGED AppVars

\* HandleItem.mouseReleaseEvent: a connected handle snaps back to its x and
\* its y is clamped into [ymin, ymax]; the handle is no longer movable.
release_clamp(hrec) ==
    IF hrec.connected
    THEN <<hrec.xpos, Max(IF hrec.y <= hrec.ymax THEN hrec.y ELSE hrec.ymax,
                          hrec.ymin)>>
    ELSE <<hrec.x, hrec.y>>

MouseRelease(h, button) ==
    /\ Idle
    /\ handle[h].exists /\ button \in handle[h].buttons
    /\ LET r == set_handle_pos(vertex, handle, edge, h,
                               release_clamp(handle[h]))
       IN  /\ handle' = [r.handle EXCEPT ![h].movable = FALSE,
                                         ![h].buttons = @ \ {button}]
           /\ edge' = r.edge
    /\ last' = [Op("release") EXCEPT !.a = h]
    /\ ClearLogs
    /\ UNCHANGED <<vertex, stack>>
    /\ UNCHANGED AppVars

\* HandleItem.contextMenuEvent: the handle is no longer movable and the menu
\* opens; the handle stays where it is, and no button is released.
ContextMenu(h) ==
    /\ Idle
    /\ handle[h].exists /\ vertex[handle[h].owner].inScene
    /\ handle' = [handle EXCEPT ![h].movable = FALSE]
    /\ last' = [Op("menu") EXCEPT !.a = h]
    /\ ClearLogs
    /\ UNCHANGED <<vertex, edge, stack>>
    /\ UNCHANGED AppVars

\* ----------------------------------------------------------- serialization
\* handle.serialize_to_dict() as VertexItem.serialize_to_dict calls it on a
\* key of database.inp or database.out: the attribute lookup on the
\* HandleItem raises AttributeError when the class does not define the name.
serialize_handle(hs, h) ==
    IF "serialize_to_dict" \in HandleItemMethods
    THEN [raised |-> FALSE, entry |-> h]
    ELSE [raised |-> TRUE, entry |-> None]

\* VertexItem.serialize_to_dict: one entry per key of database.inp and of
\* database.out, then the parameters, the attributes and the scene position.
\* The result records whether the call raised and how many entries each
\* list holds.
serialize_to_dict(vs, hs, v) ==
    LET inp == {serialize_handle(hs, h) :
                   h \in {g \in Database(hs, v) : hs[g].db = "inp"}}
        out == {serialize_handle(hs, h) :
                   h \in {g \in Database(hs, v) : hs[g].db = "out"}}
    IN  IF \E s \in inp \cup out : s.raised
        THEN [raised |-> TRUE, inp |-> 0, out |-> 0, cpos |-> <<0, 0>>]
        ELSE [raised |-> FALSE, inp |-> Cardinality(inp),
              out |-> Cardinality(out), cpos |-> vs[v].pos]

Serialize(v) ==
    /\ Idle
    /\ vertex[v].exists
    /\ \E data \in {serialize_to_dict(vertex, handle, v)} :
           last' = [Op("serialize") EXCEPT !.a = v, !.m = data.raised,
                                           !.d = data.inp, !.b = data.out]
    /\ ClearLogs
    /\ UNCHANGED <<vertex, handle, edge, stack>>
    /\ UNCHANGED AppVars

\* ------------------------------------------------------- path operations
\* HandleItem.setPos(pos), called on handle h.
SetPos(h, pos) ==
    /\ Idle
    /\ handle[h].exists
    /\ pos # <<handle[h].x, handle[h].y>>
    /\ LET r == set_handle_pos(vertex, handle, edge, h, pos)
       IN  handle' = r.handle /\ edge' = r.edge
    /\ last' = [Op("setpos") EXCEPT !.a = h]
    /\ ClearLogs
    /\ UNCHANGED <<vertex, stack>>
    /\ UNCHANGED AppVars

\* The vertex v moved to pos: each of its handles gets
\* ItemScenePositionHasChanged and emits sig_handle_moved, so every edge
\* connected to the signal of a handle of v runs on_endpoint_shifted.
vertex_moved(vs, hs, es, v) ==
    [e \in E |-> IF /\ es[e].exists /\ es[e].listens
                    /\ \E h \in Database(hs, v) :
                           h \in {es[e].origin, es[e].target}
                 THEN update_path(vs, hs, es[e], es[e].origin, es[e].target)
                 ELSE es[e]]

VertexMove(v, pos) ==
    /\ Idle
    /\ vertex[v].exists
    /\ pos # vertex[v].pos
    /\ vertex' = [vertex EXCEPT ![v].pos = pos]
    /\ edge' = vertex_moved(vertex', handle, edge, v)
    /\ last' = [Op("vertex_move") EXCEPT !.a = v]
    /\ ClearLogs
    /\ UNCHANGED <<handle, stack>>
    /\ UNCHANGED AppVars

\* A call e.update_path(origin, target) with the edge's own endpoints.  The
\* record keeps whether the latest operation before it computed the path of
\* the same edge, so that the endpoints are where they were then.
UpdatePath(e) ==
    /\ Idle
    /\ edge[e].exists
    /\ edge' = [edge EXCEPT ![e] = update_path(vertex, handle, edge[e],
                                               edge[e].origin,
                                               edge[e].target)]
    /\ last' = [Op("update_path") EXCEPT
                   !.e = e,
                   !.p = (last.op \in {"edge", "update_path"} /\ last.e = e)]
    /\ ClearLogs
    /\ UNCHANGED <<vertex, handle, stack>>
    /\ UNCHANGED AppVars

\* A call e.clear().
Clear(e) ==
    /\ Idle
    /\ edge[e].exists
    /\ edge' = [edge EXCEPT ![e] = clear(edge[e])]
    /\ last' = [Op("clear") EXCEPT !.e = e]
    /\ ClearLogs
    /\ UNCHANGED <<vertex, handle, stack>>
    /\ UNCHANGED AppVars

\* ------------------------------------------------------ vertex operations
\* VertexItem.delete: the vertex (and with it its child handles) is removed
\* from the scene; nothing else is touched.
delete(vs, v) == [vs EXCEPT ![v].inScene = FALSE]

VertexDelete(v) ==
    /\ Idle
    /\ vertex[v].exists /\ vertex[v].inScene
    /\ vertex' = delete(vertex, v)
    /\ last' = [Op("delete") EXCEPT !.a = v]
    /\ ClearLogs
    /\ UNCHANGED <<handle, edge, stack>>
    /\ UNCHANGED AppVars

\* ---------------------------------------------------- event bus: singleton
\* EventBus.__new__: the class keeps one object and allocates it only when
\* _instance is None.
EventBus_new_Always(b) ==
    [b EXCEPT !.objects = @ + 1, !.instance = b.objects + 1]
EventBus_new(b) ==
    IF b.instance = None
    THEN [b EXCEPT !.objects = @ + 1, !.instance = b.objects + 1]
    ELSE b

\* EventBus.__init__ on object o: QObject.__init__ runs unless _initialized.
EventBus_init(b, o) ==
    IF o \in b.initialized
    THEN b
    ELSE [b EXCEPT !.inits = @ + 1, !.initialized = @ \cup {o}]

\* The call EventBus(): __new__, then __init__ on what __new__ returned.
EventBus_call(b) ==
    LET b1 == EventBus_new(b)
    IN  [bus |-> EventBus_init(b1, b1.instance), result |-> b1.instance]

\* EventBus.instance().
EventBus_instance(b) ==
    IF b.instance = None
    THEN LET r == EventBus_call(b)
         IN  [bus |-> [r.bus EXCEPT !.instance = r.result],
              result |-> r.result]
    ELSE [bus |-> b, result |-> b.instance]

BusIdle == bus.stack = <<>> /\ bus.queue = <<>>

\* The caller of EventBus() or EventBus.instance() holds the result r.
access(r) == [r.bus EXCEPT !.returned = @ \cup {r.result}]

\* Some component calls EventBus().
EventBusConstruct ==
    /\ BusIdle
    /\ bus' = access(EventBus_call(bus))
    /\ UNCHANGED <<GraphVars, tabs, anim, canvas>>

\* Some component calls EventBus.instance().
EventBusInstance ==
    /\ BusIdle
    /\ bus' = access(EventBus_instance(bus))
    /\ UNCHANGED <<GraphVars, tabs, anim, canvas>>

\* ------------------------------------------------------------ tab widgets
\* QTabWidget.indexOf(widget): the 0-based index of the page, -1 when the
\* widget (or None) is not a page.
indexOf(pages, widget) ==
    IF \E i \in 1..Len(pages) : pages[i] = widget
    THEN (CHOOSE i \in 1..Len(pages) : pages[i] = widget) - 1
    ELSE -1

\* QTabWidget.addTab(widget, ...): the page is appended; the first page
\* becomes the current one.
addTab(t, widget) ==
    [t EXCEPT !.pages = Append(@, widget),
              !.current = IF t.pages = <<>> THEN 0 ELSE @,
              !.opened = TRUE]

\* QTabWidget.removeTab(index): nothing for an index out of range; the
\* current page stays current, and when it is the one removed its right
\* neighbour (else the new last page) becomes current.
removeTab(t, index) ==
    IF index < 0 \/ index >= Len(t.pages)
    THEN t
    ELSE LET n == Len(t.pages) - 1
         IN  [t EXCEPT
                 !.pages = SubSeq(t.pages, 1, index)
                               \o SubSeq(t.pages, index + 2, n + 1),
                 !.current = IF n = 0 THEN -1
                             ELSE IF index < t.current THEN t.current - 1
                             ELSE IF t.current > n - 1 THEN n - 1
                             ELSE t.current]

\* The default page tab widget w constructs when it is given no widget: a
\* new object, numbered apart from every other widget.
default_view(ts, w) == NumWidgets + ts[w].views * NumTabWidgets + w

\* A widget has one parent and is one page: a widget that is added as a
\* page leaves the tab widget that showed it before, and the page it had
\* when that is the tab widget it is added to.
reparent(ts, widget) ==
    [u \in TW |-> removeTab(ts[u], indexOf(ts[u].pages, widget))]

\* addTab on tab widget w of ts with the given widget, or with a new default
\* view when the widget is None.
add_page(ts, w, widget) ==
    IF widget # None
    THEN [reparent(ts, widget) EXCEPT ![w] = addTab(@, widget)]
    ELSE [ts EXCEPT ![w] = addTab([ts[w] EXCEPT !.views = @ + 1],
                                  default_view(ts, w))]

\* TabbedWidget.new_tab(widget, label, icon).
new_tab_NoLookup(ts, w, widget) == add_page(ts, w, widget)
new_tab(ts, w, widget) ==
    LET index == indexOf(ts[w].pages, widget)
    IN  IF index >= 0
        THEN [ts EXCEPT ![w].current = index]
        ELSE add_page(ts, w, widget)

\* TabbedWidget._close_tab(index).
close_tab(t, index) == removeTab(t, index)

\* TabView.create_tab(widget, label, icon).
create_tab(ts, w, widget) ==
    IF Len(ts[w].pages) >= MaxTabs THEN ts ELSE add_page(ts, w, widget)

\* TabView._on_tab_close(index) and TabView.remove_tab().
on_tab_close(t, index) ==
    IF Len(t.pages) > 1 THEN removeTab(t, index) ELSE t
remove_tab(t) == on_tab_close(t, t.current)

NextTabWidget == IF Count(tabs, TW) < NumTabWidgets
                 THEN Count(tabs, TW) + 1 ELSE None

\* The record of a new_tab call on tab widget w: the widget, the number of
\* pages and the widget's index before the call.
NewTabOp(w, widget) ==
    [Op("new_tab") EXCEPT !.a = w, !.b = widget,
                          !.d = Len(tabs[w].pages),
                          !.e = indexOf(tabs[w].pages, widget)]

\* The indices a caller may name for a tab widget: every page's, and one on
\* either side.
Indices(w) == -1..Len(tabs[w].pages)

\* A direct call of new_tab on TabbedWidget w, which has constructed fewer
\* than nv default views.
NewTab(w, widget, nv) ==
    /\ BusIdle
    /\ tabs[w].exists /\ tabs[w].kind = "TabbedWidget"
    /\ widget = None => tabs[w].views < nv
    /\ tabs' = new_tab(tabs, w, widget)
    /\ last' = NewTabOp(w, widget)
    /\ UNCHANGED <<vertex, handle, edge, stack, freeLog, resetLog, bus, anim,
                   canvas>>

\* A request to close the tab at `index` of TabbedWidget w.
CloseTab(w, index) ==
    /\ BusIdle
    /\ tabs[w].exists /\ tabs[w].kind = "TabbedWidget"
    /\ tabs' = [tabs EXCEPT ![w] = close_tab(tabs[w], index)]
    /\ last' = [Op("close_tab") EXCEPT !.a = w, !.d = Len(tabs[w].pages)]
    /\ UNCHANGED <<vertex, handle, edge, stack, freeLog, resetLog, bus, anim,
                   canvas>>

\* TabView.__init__: the shortcuts, and the first tab ("Map View").
TabViewInit ==
    /\ BusIdle
    /\ NextTabWidget # None
    /\ LET w == NextTabWidget
       IN  tabs' = create_tab(
                       [tabs EXCEPT ![w] = [NoTabWidget EXCEPT
                                               !.exists = TRUE,
                                               !.kind = "TabView"]],
                       w, None)
    /\ last' = Op("tab_view")
    /\ UNCHANGED <<vertex, handle, edge, stack, freeLog, resetLog, bus, anim,
                   canvas>>

\* Ctrl+T, or a call of create_tab with a widget, on TabView w.
CreateTab(w, widget, nv) ==
    /\ BusIdle
    /\ tabs[w].exists /\ tabs[w].kind = "TabView"
    /\ widget = None => tabs[w].views < nv
    /\ tabs' = create_tab(tabs, w, widget)
    /\ last' = [Op("create_tab") EXCEPT !.a = w, !.d = Len(tabs[w].pages)]
    /\ UNCHANGED <<vertex, handle, edge, stack, freeLog, resetLog, bus, anim,
                   canvas>>

\* The close button of the tab at `index` of TabView w.
OnTabClose(w, index) ==
    /\ BusIdle
    /\ tabs[w].exists /\ tabs[w].kind = "TabView"
    /\ tabs' = [tabs EXCEPT ![w] = on_tab_close(tabs[w], index)]
    /\ last' = [Op("on_tab_close") EXCEPT !.a = w, !.d = Len(tabs[w].pages)]
    /\ UNCHANGED <<vertex, handle, edge, stack, freeLog, resetLog, bus, anim,
                   canvas>>

\* Ctrl+W on TabView w.
RemoveTab(w) ==
    /\ BusIdle
    /\ tabs[w].exists /\ tabs[w].kind = "TabView"
    /\ tabs' = [tabs EXCEPT ![w] = remove_tab(tabs[w])]
    /\ last' = [Op("remove_tab") EXCEPT !.a = w, !.d = Len(tabs[w].pages)]
    /\ UNCHANGED <<vertex, handle, edge, stack, freeLog, resetLog, bus, anim,
                   canvas>>

\* ----------------------------------------------------- event bus: delivery
\* A dict lacks the key "command".
Missing == "<missing>"
Commands == {"open_in_tab", "item_focused", "relay"}
\* A payload: None (present = FALSE), or a dict whose "widget" is a widget or
\* absent.
NoPayload == [present |-> FALSE, widget |-> None]
Payloads == {NoPayload} \cup {[present |-> TRUE, widget |-> x] :
                                 x \in W \cup {None}}
\* The messages send() can build, and the dicts a component may emit on
\* `instruction` directly.
Messages == [command : Commands, payload : Payloads]
Dicts == [command : Commands \cup {Missing}, payload : Payloads]

NoSlot == [kind |-> "none", id |-> None, type |-> "direct"]
Frame(kind, id, msg, todo, slot, pc) ==
    [kind |-> kind, id |-> id, msg |-> msg, todo |-> todo, slot |-> slot,
     pc |-> pc]
Event(ev, id, slot, msg, parent, slots) ==
    [ev |-> ev, id |-> id, slot |-> slot, msg |-> msg, parent |-> parent,
     slots |-> slots]

\* instruction.connect(slot): the slot is appended to the connections; the
\* connection is direct (one thread, default connection type).
signal_connect_Queued(b, kind, id) ==
    [b EXCEPT !.subs = Append(@, [kind |-> kind, id |-> id,
                                  type |-> "queued"])]
signal_connect(b, kind, id) ==
    [b EXCEPT !.subs = Append(@, [kind |-> kind, id |-> id,
                                  type |-> "direct"])]

\* The emission whose handler is running (0 outside a handler).
Running(b) == IF b.stack = <<>> THEN 0 ELSE b.stack[Len(b.stack)].id

\* instruction.emit(message): the emission starts with the slots connected
\* now, in connection order.
emit_Reversed(b, message) ==
    LET id == b.sent + 1
        rev == [i \in 1..Len(b.subs) |-> b.subs[Len(b.subs) + 1 - i]]
    IN  [b EXCEPT !.sent = id,
                  !.stack = Append(@, Frame("emit", id, message, rev,
                                            NoSlot, "")),
                  !.log = Append(@, Event("send", id, NoSlot, message,
                                          Running(b), b.subs))]
emit(b, message) ==
    LET id == b.sent + 1
    IN  [b EXCEPT !.sent = id,
                  !.stack = Append(@, Frame("emit", id, message, b.subs,
                                            NoSlot, "")),
                  !.log = Append(@, Event("send", id, NoSlot, message,
                                          Running(b), b.subs))]

\* EventBus.send(command, payload): the message dict is built and emitted.
send_DropsPayload(b, command, payload) ==
    emit([b EXCEPT !.asked = Append(@, [command |-> command,
                                        payload |-> payload])],
         [command |-> command, payload |-> NoPayload])
send(b, command, payload) ==
    emit([b EXCEPT !.asked = Append(@, [command |-> command,
                                        payload |-> payload])],
         [command |-> command, payload |-> payload])

\* message.get("command", "").
get_command(message) ==
    IF message.command = Missing THEN "" ELSE message.command

\* TabbedWidget._handle_instructions(message) of tab widget w; a payload of
\* None makes payload.get raise, which ends the handler.
handle_instructions_AnyCommand(ts, w, message) ==
    IF ~message.payload.present THEN ts
    ELSE new_tab(ts, w, message.payload.widget)
handle_instructions(ts, w, message) ==
    IF get_command(message) = "open_in_tab"
    THEN IF ~message.payload.present THEN ts
         ELSE new_tab(ts, w, message.payload.widget)
    ELSE ts

\* Whether the handler of tab widget w reaches new_tab on the message.
CallsNewTab(message) ==
    get_command(message) = "open_in_tab" /\ message.payload.present

\* TabbedWidget.__init__: the tab widget, without pages, connected to the
\* instruction signal of EventBus.instance().
TabbedWidgetInit ==
    /\ BusIdle
    /\ NextTabWidget # None
    /\ LET w == NextTabWidget
       IN  /\ tabs' = [tabs EXCEPT ![w] = [NoTabWidget EXCEPT
                                              !.exists = TRUE]]
           /\ bus' = signal_connect(access(EventBus_instance(bus)), "tab", w)
    /\ last' = Op("tabbed_widget")
    /\ UNCHANGED <<vertex, handle, edge, stack, freeLog, resetLog, anim,
                   canvas>>

\* Every tab widget can still construct k default views below nv.
ViewsLeft(nv, k) == \A w \in TW : tabs[w].views + k <= nv

\* A component calls send(command, payload) on the bus, outside any handler;
\* the trace starts afresh.
Send(command, payload, nv) ==
    /\ BusIdle
    /\ bus.instance # None
    /\ ViewsLeft(nv, MaxSends)
    /\ bus' = send([bus EXCEPT !.sent = 0, !.asked = <<>>, !.log = <<>>],
                   command, payload)
    /\ UNCHANGED <<GraphVars, tabs, anim, canvas>>

\* A component emits a dict on `instruction` directly, as MainWindow does.
Emit(message, nv) ==
    /\ BusIdle
    /\ bus.instance # None
    /\ ViewsLeft(nv, MaxSends)
    /\ bus' = emit([bus EXCEPT !.sent = 0, !.asked = <<message>>,
                              !.log = <<>>], message)
    /\ UNCHANGED <<GraphVars, tabs, anim, canvas>>

\* A component other than the tab widget (the specification names the
\* sidebar and the canvas) subscribes; on the command "relay" its handler
\* publishes the payload it was given under a command of Republished.
Republished == {"open_in_tab", "relay"}
RelaySubscribe ==
    /\ BusIdle
    /\ Len(bus.subs) < NumSubscribers
    /\ bus' = signal_connect(access(EventBus_instance(bus)), "relay",
                             Len(bus.subs) + 1)
    /\ UNCHANGED <<GraphVars, tabs, anim, canvas>>

\* The emission on top of the stack hands the message to its next slot: a
\* direct slot is called at once, a queued one is posted to the event loop.
deliver_next(b) ==
    LET n == Len(b.stack)
        f == b.stack[n]
        slot == Head(f.todo)
        rest == [b.stack EXCEPT ![n].todo = Tail(f.todo)]
    IN  IF slot.type = "direct"
        THEN [b EXCEPT
                 !.stack = Append(rest, Frame("handler", f.id, f.msg, <<>>,
                                              slot, "enter")),
                 !.log = Append(@, Event("begin", f.id, slot, f.msg, 0,
                                         <<>>))]
        ELSE [b EXCEPT
                 !.stack = rest,
                 !.queue = Append(@, Frame("handler", f.id, f.msg, <<>>,
                                           slot, "enter"))]

\* The innermost emission or handler returns.
return_top(b, ev) ==
    LET n == Len(b.stack)
        f == b.stack[n]
    IN  [b EXCEPT !.stack = SubSeq(@, 1, n - 1),
                  !.log = Append(@, Event(ev, f.id, f.slot, f.msg, 0, <<>>))]

\* One step of the bus: of the innermost emission (the next slot, or the
\* return of emit and send), of the innermost handler (the tab widget's
\* _handle_instructions as a whole; the relay's publish, then its return),
\* or, outside any emission, of the event loop (a posted delivery).
BusStep ==
    /\ bus.stack # <<>> \/ bus.queue # <<>>
    /\ IF bus.stack = <<>>
       THEN /\ bus' = [bus EXCEPT
                          !.queue = Tail(@),
                          !.stack = <<Head(bus.queue)>>,
                          !.log = Append(@, Event("begin", Head(bus.queue).id,
                                                  Head(bus.queue).slot,
                                                  Head(bus.queue).msg, 0,
                                                  <<>>))]
            /\ UNCHANGED <<tabs, last>>
       ELSE LET f == bus.stack[Len(bus.stack)]
            IN  CASE f.kind = "emit" /\ f.todo # <<>> ->
                       /\ bus' = deliver_next(bus)
                       /\ UNCHANGED <<tabs, last>>
                  [] f.kind = "emit" /\ f.todo = <<>> ->
                       /\ bus' = return_top(bus, "return")
                       /\ UNCHANGED <<tabs, last>>
                  [] f.kind = "handler" /\ f.slot.kind = "tab" ->
                       /\ tabs' = handle_instructions(tabs, f.slot.id, f.msg)
                       /\ last' = IF CallsNewTab(f.msg)
                                  THEN NewTabOp(f.slot.id,
                                                f.msg.payload.widget)
                                  ELSE [Op("ignored") EXCEPT !.a = f.slot.id]
                       /\ bus' = return_top(bus, "end")
                  [] f.kind = "handler" /\ f.slot.kind = "relay"
                       /\ f.pc = "enter" /\ get_command(f.msg) = "relay"
                       /\ bus.sent < MaxSends ->
                       /\ \E c \in Republished :
                              bus' = send([bus EXCEPT
                                              !.stack[Len(bus.stack)].pc =
                                                  "after"],
                                          c, f.msg.payload)
                       /\ UNCHANGED <<tabs, last>>
                  [] OTHER ->
                       /\ bus' = return_top(bus, "end")
                       /\ UNCHANGED <<tabs, last>>
    /\ UNCHANGED <<vertex, handle, edge, stack, freeLog, resetLog, anim,
                   canvas>>

\* ------------------------------------------------------------- animations
\* QAbstractAnimation.stop(): the animation is Stopped, the property keeps
\* the value it has.
anim_stop(a) == [a EXCEPT !.state = "Stopped"]

\* QEasingCurve.valueForProgress at step t of AnimSteps, as
\* <<numerator, denominator>>. With x = t / AnimSteps: Linear is x,
\* OutQuad is -x (x - 2), InOutCubic is 4 x^3 below the half and
\* 1 - 4 (1 - x)^3 from it, InOutSine is (1 - cos(pi x)) / 2, where the
\* cosine of a whole number q of quarter turns is 1, 0, -1, 0, and OutExpo
\* is 1 at the end and 1.001 (1 - 2^(-10 x)) before it.
easing(curve, t) ==
    LET N == AnimSteps
        q == (2 * t) \div N
        cos == CASE q % 4 = 0 -> 1 [] q % 4 = 2 -> -1 [] OTHER -> 0
        e == (10 * t) \div N
    IN  CASE curve = "OutQuad" -> <<t * (2 * N - t), N * N>>
          [] curve = "InOutCubic" ->
                 IF 2 * t < N
                 THEN <<4 * t * t * t, N * N * N>>
                 ELSE <<N * N * N - 4 * (N - t) * (N - t) * (N - t),
                        N * N * N>>
          [] curve = "InOutSine" -> <<1 - cos, 2>>
          [] curve = "OutExpo" ->
                 IF t = N THEN <<1, 1>>
                 ELSE <<1001 * (2 ^ e - 1), 1000 * 2 ^ e>>
          [] OTHER -> <<t, N>>

\* QVariantAnimation's value at step t: start + (end - start) * progress,
\* the progress that of the easing curve (a fraction whose denominator
\* divides 10^8).
interpolated(a, t) ==
    LET f == easing(a.curve, t)
        m == f[1] * (100000000 \div f[2])
    IN  IF Less(a.endValue, a.startValue)
        THEN Sum(a.startValue, -1,
                 Times(Sum(a.startValue, -1, a.endValue), m, 8))
        ELSE Sum(a.startValue, 1,
                 Times(Sum(a.endValue, -1, a.startValue), m, 8))

\* setStartValue(s); setEndValue(e): the key values are assigned; on a
\* Running animation each assignment writes the property at once, with the
\* value the new key values give at the current time.
anim_set(a, s, e) ==
    LET keys == [a EXCEPT !.startValue = s, !.endValue = e,
                          !.retargeted = (a.state = "Running")]
    IN  IF a.state = "Running"
        THEN [keys EXCEPT !.value = interpolated(keys, a.time)]
        ELSE keys

\* QAbstractAnimation.start(): nothing when the animation is Running,
\* otherwise it runs from time 0 and the property takes the start value.
anim_start(a) ==
    IF a.state = "Running" THEN a
    ELSE [a EXCEPT !.state = "Running", !.time = 0, !.value = a.startValue]

\* The timer fires for a running animation, half-way or at the end of its
\* duration; at the end the property has the end value and the animation
\* is Stopped.
anim_tick(a) ==
    LET t == a.time + 1
    IN  [a EXCEPT !.time = t, !.value = interpolated(a, t),
                  !.state = IF t >= AnimSteps THEN "Stopped" ELSE @]

\* HandleItem.hoverEnterEvent / hoverLeaveEvent.
handle_hoverEnterEvent(a) ==
    anim_start(anim_set([a EXCEPT !.hovered = TRUE],
                        Decimal(HandleRadius, 1),
                        Decimal(HandleRadius + RadiusGrow, 1)))
handle_hoverLeaveEvent(a) ==
    anim_start(anim_set([a EXCEPT !.hovered = FALSE],
                        Decimal(HandleRadius + RadiusGrow, 1),
                        Decimal(HandleRadius, 1)))

\* VectorItem.hoverEnterEvent / hoverLeaveEvent.
edge_hoverEnterEvent(a) ==
    anim_start(anim_set(anim_stop([a EXCEPT !.hovered = TRUE]),
                        Decimal(BaseWidth, 1),
                        Decimal(BaseWidth + WidthGrow, 1)))
edge_hoverLeaveEvent(a) ==
    anim_start(anim_set(anim_stop([a EXCEPT !.hovered = FALSE]),
                        Decimal(BaseWidth + WidthGrow, 1),
                        Decimal(BaseWidth, 1)))

\* The factors of a zoom request, as <<numerator, denominator>>.
Factors == {<<2, 1>>, <<1, 2>>}
Clamp(lo, x, hi) ==
    IF Less(x, lo) THEN lo ELSE IF Less(hi, x) THEN hi ELSE x

\* GraphicsView.execute_zoom(factor, animate): the zoom times the factor
\* (a fraction whose denominator divides 10), kept within the limits.
execute_zoom(a, factor, animate) ==
    LET a1 == IF a.state = "Running" THEN anim_stop(a) ELSE a
        target == Clamp(Decimal(ZoomMin, 3),
                        Times(a.value, factor[1] * (10 \div factor[2]), 1),
                        Decimal(ZoomMax, 3))
    IN  IF animate
        THEN anim_start(anim_set(a1, a.value, target))
        ELSE [a1 EXCEPT !.value = target]

\* The scene points an item can be focused at.
Centers == {0, 10}

\* GraphicsView._on_item_focused(item), the item's centre at item_pos.
on_item_focused(a, item_pos) ==
    anim_start(anim_set(anim_stop(a), a.value, Decimal(item_pos, 0)))

\* VertexItem.highlight() of a vertex on the scene, its centre at item_pos:
\* viewer.centerOn(self) moves the view's centre there at once.  The focus
\* animation is not touched: one that is running writes the centre again
\* at its next step.
highlight(a, item_pos) == [a EXCEPT !.value = Decimal(item_pos, 0)]

\* One more request was made of the animation.
requested(a) == [a EXCEPT !.requests = @ + 1]
Requestable(p) == anim[p].requests < MaxRequests

HandleHoverEnter ==
    /\ Requestable("handle.radius")
    /\ ~anim["handle.radius"].hovered
    /\ anim' = [anim EXCEPT !["handle.radius"] = requested(handle_hoverEnterEvent(@))]
    /\ UNCHANGED <<GraphVars, bus, tabs, canvas>>

HandleHoverLeave ==
    /\ Requestable("handle.radius")
    /\ anim["handle.radius"].hovered
    /\ anim' = [anim EXCEPT !["handle.radius"] = requested(handle_hoverLeaveEvent(@))]
    /\ UNCHANGED <<GraphVars, bus, tabs, canvas>>

EdgeHoverEnter ==
    /\ Requestable("edge.thickness")
    /\ ~anim["edge.thickness"].hovered
    /\ anim' = [anim EXCEPT !["edge.thickness"] = requested(edge_hoverEnterEvent(@))]
    /\ UNCHANGED <<GraphVars, bus, tabs, canvas>>

EdgeHoverLeave ==
    /\ Requestable("edge.thickness")
    /\ anim["edge.thickness"].hovered
    /\ anim' = [anim EXCEPT !["edge.thickness"] = requested(edge_hoverLeaveEvent(@))]
    /\ UNCHANGED <<GraphVars, bus, tabs, canvas>>

ExecuteZoom(factor, animate) ==
    /\ Requestable("view.zoom")
    /\ anim' = [anim EXCEPT !["view.zoom"] = requested(execute_zoom(@, factor, animate))]
    /\ UNCHANGED <<GraphVars, bus, tabs, canvas>>

ItemFocused(item_pos) ==
    /\ Requestable("view.center")
    /\ anim' = [anim EXCEPT !["view.center"] = requested(on_item_focused(@, item_pos))]
    /\ UNCHANGED <<GraphVars, bus, tabs, canvas>>

Highlight(item_pos) ==
    /\ anim' = [anim EXCEPT !["view.center"] = highlight(@, item_pos)]
    /\ UNCHANGED <<GraphVars, bus, tabs, canvas>>

\* The animation timer: a running animation advances one step.
AnimTick(p) ==
    /\ anim[p].state = "Running"
    /\ anim' = [anim EXCEPT ![p] = anim_tick(@)]
    /\ UNCHANGED <<GraphVars, bus, tabs, canvas>>

NextAnim ==
    \/ HandleHoverEnter
    \/ HandleHoverLeave
    \/ EdgeHoverEnter
    \/ EdgeHoverLeave
    \/ \E f \in Factors, animate \in BOOLEAN : ExecuteZoom(f, animate)
    \/ \E c \in Centers : ItemFocused(c)
    \/ \E c \in Centers : Highlight(c)
    \/ \E p \in Animations : AnimTick(p)

SpecAnim == Init /\ [][NextAnim]_vars

\* ------------------------------------------------------ bus specification
\* The bus with the tab widget and relaying components subscribed.
NextBus ==
    \/ EventBusConstruct
    \/ EventBusInstance
    \/ Len(bus.subs) < NumSubscribers /\ TabbedWidgetInit
    \/ RelaySubscribe
    \/ \E m \in Messages : Send(m.command, m.payload, FewViews)
    \/ \E m \in Dicts : Emit(m, FewViews)
    \/ BusStep

SpecBus == Init /\ [][NextBus]_vars

\* ------------------------------------------------------ tab specification
\* Tab widgets that are asked for tabs directly and by messages.
NextTabs ==
    \/ TabbedWidgetInit
    \/ \E m \in Dicts : Emit(m, FewViews)
    \/ \E w \in TW, x \in W \cup {None} :
           /\ x = None => ViewsLeft(FewViews, MaxSends)
           /\ NewTab(w, x, FewViews)
    \/ BusStep

SpecTabs == Init /\ [][NextTabs]_vars

\* -------------------------------------------------- tab-limit specification
\* A tab widget of either class under create and close requests.
NextTabLimit ==
    \/ TabbedWidgetInit
    \/ TabViewInit
    \/ \E w \in TW, x \in W \cup {None} : NewTab(w, x, MaxViews)
    \/ \E w \in TW : \E i \in Indices(w) : CloseTab(w, i)
    \/ \E w \in TW, x \in W \cup {None} : CreateTab(w, x, MaxViews)
    \/ \E w \in TW : \E i \in Indices(w) : OnTabClose(w, i)
    \/ \E w \in TW : RemoveTab(w)

SpecTabLimit == Init /\ [][NextTabLimit]_vars

\* ------------------------------------------------- resize specification
\* The callers of the specifications put a vertex on the scene, and give
\* an output handle its flow, right after making it: the latest operation
\* made x.
Fresh(op, x) == last.op = op /\ last.a = x
\* They make edges between, and free, handles of vertices on the scene.
OnScene(h) == handle[h].exists /\ vertex[handle[h].owner].inScene

\* The role arguments of programmatic handle creation.
RoleArgs == {Str(s) : s \in {"INP", "OUT", "inp", "Inp", "out", "x"}}
                \cup {Enum(n) : n \in {"INP", "OUT"}}
NextResize ==
    \/ \E cpos \in {<<0, 0>>} :
           Count(vertex, V) < ResizeVertices /\ VertexInit(cpos)
    \/ \E v \in V : Fresh("vertex", v) /\ AddItem(v, "scene")
    \/ \E v \in V, r \in RoleArgs, y \in Ys :
           /\ Count(handle, H) < ResizeHandles
           /\ CreateHandle(v, r, <<AnchorX(role_of(r)), y>>)
    \/ \E v \in V, role \in {"INP", "OUT"}, y \in Ys :
           Count(handle, H) < ResizeHandles /\ AnchorClicked(v, role, y)
    \/ \E v \in V, dx \in DragXs, d \in DragYs : ResizeHandleMoved(v, dx, d)

SpecResize == Init /\ [][NextResize]_vars

\* ------------------------------------------ serialization specification
NextSerialize ==
    \/ \E cpos \in {<<0, 0>>} :
           Count(vertex, V) < ResizeVertices /\ VertexInit(cpos)
    \/ \E v \in V, r \in RoleArgs, y \in Ys :
           /\ Count(handle, H) < ResizeHandles
           /\ CreateHandle(v, r, <<AnchorX(role_of(r)), y>>)
    \/ \E v \in V, pos \in VertexAt : VertexMove(v, pos)
    \/ \E v \in V : Serialize(v)

SpecSerialize == Init /\ [][NextSerialize]_vars

\* --------------------------------------------- connection specification
\* The steps of the connection graph with at most nh handles and ne edges,
\* on a scene that is no canvas.  An edge is made between any two handles
\* on the scene, the same handle twice included: VectorItem takes any two
\* HandleItem instances.  The scenario builds the graph in order: a vertex
\* is made while a handle can still be made, and goes on the scene before
\* anything else happens; vertices get their handles in the order they
\* were made; an origin without a flow is tried while one endpoint is newly
\* made; and the vertices deleted are the ones with a connected handle.
Owned(v) == \E h \in H : handle[h].exists /\ handle[h].owner = v

Steps(nh, ne) ==
    \/ \E cpos \in {<<0, 0>>} :
           /\ \A u \in V : vertex[u].exists => Owned(u)
           /\ Count(handle, H) < nh
           /\ VertexInit(cpos)
    \/ \E v \in V : Fresh("vertex", v) /\ AddItem(v, "scene")
    \/ \E v \in V, role \in {"INP", "OUT"}, y \in ConnYs :
           /\ Count(handle, H) < nh
           /\ last.op # "vertex"
           /\ \A u \in V : u < v => Owned(u)
           /\ AnchorClicked(v, role, y)
    \/ \E h \in H :
           /\ Fresh("anchor", h)
           /\ handle[h].role = "OUT"
           /\ SetFlow(h)
    \/ \E a \in H, b \in H :
           /\ Count(edge, E) < ne
           /\ last.op # "vertex"
           /\ handle[a].flow \/ Fresh("anchor", a) \/ Fresh("anchor", b)
           /\ OnScene(a) /\ OnScene(b)
           /\ CreateEdge(a, b)
    \/ \E h \in H, mirror \in BOOLEAN :
           last.op # "vertex" /\ OnScene(h) /\ FreeCall(h, mirror)
    \/ FreeStep
    \/ \E v \in V :
           /\ \E h \in H : /\ handle[h].exists
                            /\ handle[h].owner = v
                            /\ handle[h].connected
           /\ VertexDelete(v)

Next == Steps(NumHandles, NumEdges)

Spec == Init /\ [][Next]_vars

\* The same with more handles and edges.
NextWide == Steps(WideHandles, WideEdges)

SpecWide == Init /\ [][NextWide]_vars

\* ----------------------------------------------------- path specification
\* Edges whose endpoints and vertices are moved, and paths recomputed and
\* cleared.  The handles are made in turn on the vertices, outputs and
\* inputs alternating; the vertex of the first input is the one moved.
PathOwner(h) == ((h - 1) % NumVertices) + 1
PathRole(h) == IF h % 2 = 1 THEN "OUT" ELSE "INP"

NextPath ==
    \/ \E cpos \in {<<0, 0>>} : VertexInit(cpos)
    \/ \E v \in V, r \in {Enum("INP"), Enum("OUT")}, y \in ConnYs :
           /\ Count(handle, H) < PathHandles
           /\ v = PathOwner(NextHandle) /\ r.name = PathRole(NextHandle)
           /\ CreateHandle(v, r, <<AnchorX(role_of(r)), y>>)
    \/ \E h \in H :
           /\ Fresh("handle", h)
           /\ handle[h].role = "OUT"
           /\ SetFlow(h)
    \/ \E a \in H, b \in H : Count(edge, E) < NumEdges /\ CreateEdge(a, b)
    \/ \E h \in H, pos \in HandleAt : SetPos(h, pos)
    \/ \E v \in {PathOwner(2)}, pos \in VertexAt : VertexMove(v, pos)
    \/ \E e \in E : UpdatePath(e)
    \/ \E e \in E : Clear(e)

SpecPath == Init /\ [][NextPath]_vars

\* ---------------------------------------------- canvas specification
\* Vertices are built, given handles through create_handle or not, and put
\* on the canvas; rails are clicked, handles are pressed and released.
NextCanvas ==
    \/ \E cpos \in {<<0, 0>>} : VertexInit(cpos)
    \/ \E v \in V : AddItem(v, "canvas")
    \/ \E v \in V, r \in {Enum("INP"), Enum("OUT")}, y \in ConnYs :
           /\ Count(handle, H) < CanvasHandles
           /\ ~vertex[v].inScene
           /\ v = PathOwner(NextHandle) /\ r.name = PathRole(NextHandle)
           /\ CreateHandle(v, r, <<AnchorX(role_of(r)), y>>)
    \/ \E v \in V, role \in {"INP", "OUT"}, y \in ConnYs :
           /\ Count(handle, H) < CanvasHandles
           /\ v = PathOwner(NextHandle) /\ role = PathRole(NextHandle)
           /\ AnchorClicked(v, role, y)
    \/ \E h \in H :
           /\ Fresh("anchor", h) \/ Fresh("handle", h)
           /\ handle[h].role = "OUT"
           /\ SetFlow(h)
    \/ \E h \in H, button \in Buttons : MousePress(h, button)
    \/ \E h \in H, button \in Buttons : MouseRelease(h, button)
    \/ Cancel

SpecCanvas == Init /\ [][NextCanvas]_vars

\* ----------------------------------------------------- drag specification
\* Handles are made, connected, pressed, dragged and released, and the
\* context menu is asked for while a button is held on the handle.  The
\* edges of this scenario are the ones a canvas offers: between compatible
\* handles.
NextDrag ==
    \/ \E cpos \in {<<0, 0>>} : VertexInit(cpos)
    \/ \E v \in V : Fresh("vertex", v) /\ AddItem(v, "scene")
    \/ \E v \in V, role \in {"INP", "OUT"}, y \in ConnYs :
           Count(handle, H) < NumHandles /\ AnchorClicked(v, role, y)
    \/ \E v \in V, r \in {Str("INP")}, y \in AboveRailYs :
           /\ Count(handle, H) < NumHandles
           /\ CreateHandle(v, r, <<AnchorX(role_of(r)), y>>)
    \/ \E h \in H :
           /\ Fresh("anchor", h) \/ Fresh("handle", h)
           /\ handle[h].role = "OUT"
           /\ SetFlow(h)
    \/ \E a \in H, b \in H :
           /\ Count(edge, E) < NumEdges
           /\ OnScene(a) /\ OnScene(b)
           /\ compatible(handle, a, b)
           /\ CreateEdge(a, b)
    \/ \E h \in H, button \in Buttons : MousePress(h, button)
    \/ \E h \in H, pos \in MoveTo : MouseMove(h, pos)
    \/ \E h \in H, button \in Buttons : MouseRelease(h, button)
    \/ \E h \in H : handle[h].buttons # {} /\ ContextMenu(h)
    \/ \E v \in V, d \in GrowYs : ResizeHandleMoved(v, 0, d)

SpecDrag == Init /\ [][NextDrag]_vars

\* ------------------------------------------------------------ properties
Baseline(h) ==
    /\ ~handle[h].connected
    /\ handle[h].connector = None
    /\ handle[h].conjugate = None

\* The edges that reference both a and b as their endpoints.
EdgesBetween(a, b) ==
    {f \in E : edge[f].exists /\ {edge[f].origin, edge[f].target} = {a, b}}

\* C1: after an edge e is created between two compatible handles a and b,
\* both are connected, both have e as connector, each is the other's
\* conjugate, and exactly one edge references both.
C1_PairingPostcondition ==
    (Idle /\ last.op = "edge" /\ last.p) =>
        /\ handle[last.a].connected /\ handle[last.b].connected
        /\ handle[last.a].connector = last.e
        /\ handle[last.b].connector = last.e
        /\ handle[last.a].conjugate = last.b
        /\ handle[last.b].conjugate = last.a
        /\ Cardinality(EdgesBetween(last.a, last.b)) = 1

\* C2: when free(mirror=True) was called on a handle paired with another
\* (each the other's conjugate over one connector) and has returned, both
\* handles are at the unconnected baseline, so no edge is reachable from
\* either, and the edge that joined them is hidden.
C2_SymmetricDetach ==
    (Idle /\ last.op = "free" /\ last.m /\ last.p) =>
        /\ Baseline(last.a)
        /\ Baseline(last.b)
        /\ ~edge[last.e].visible

C2_Witness == Idle /\ last.op = "free" /\ last.m /\ last.p

\* C3: free(mirror=False) never calls free again and resets only its own
\* handle; a free(mirror=True) on a handle with connector and conjugate
\* makes exactly one nested call, with mirror=False (call depth 2), and
\* every handle the call reaches is reset exactly once.
C3_NoRecursion ==
    /\ Len(stack) <= 2
    /\ \A i \in 1..Len(stack) : i > 1 => ~stack[i].mirror
    /\ Len(freeLog) <= 2
    /\ (freeLog # <<>> /\ ~freeLog[1].mirror) => Len(freeLog) = 1
    /\ \A i, j \in 1..Len(resetLog) : i # j => resetLog[i] # resetLog[j]
    /\ (Idle /\ last.op = "free") =>
           /\ Len(resetLog) = Len(freeLog)
           /\ {resetLog[i] : i \in 1..Len(resetLog)}
                  = {freeLog[i].h : i \in 1..Len(freeLog)}
           /\ ~last.m => resetLog = <<last.a>>
           /\ (last.m /\ last.e # None /\ last.b # None) => Len(freeLog) = 2

\* C4: every handle is connected exactly when it has both a connector and a
\* conjugate, and not connected exactly when it has neither.
C4_HandleConsistency ==
    \A h \in H : handle[h].exists =>
        /\ handle[h].connected <=>
               (handle[h].connector # None /\ handle[h].conjugate # None)
        /\ ~handle[h].connected <=>
               (handle[h].connector = None /\ handle[h].conjugate = None)

\* After a call of free returned, one handle is connected and another is
\* back at the baseline.
C4_Witness ==
    /\ Idle /\ last.op = "free"
    /\ \E h \in H : handle[h].exists /\ handle[h].connected
    /\ \E h \in H : handle[h].exists /\ Baseline(h)

\* C5: no handle is an endpoint of more than one visible edge.
C5_OneToOne ==
    \A h \in H :
        Cardinality({e \in E : /\ edge[e].exists /\ edge[e].visible
                               /\ h \in {edge[e].origin, edge[e].target}})
            <= 1

\* C6: every edge joins two handles of opposite roles that belong to
\* different vertices.
C6_CompatibleEndpoints ==
    \A e \in E : edge[e].exists =>
        /\ handle[edge[e].origin].role # handle[edge[e].target].role
        /\ handle[edge[e].origin].owner # handle[edge[e].target].owner

\* C7: between operations, every edge that references handles references
\* two handles whose connector is that edge: once an endpoint is freed the
\* edge no longer references the handles.
C7_EdgeLiveness ==
    Idle => \A e \in E : (edge[e].exists /\ edge[e].origin # None) =>
        /\ edge[e].target # None
        /\ handle[edge[e].origin].connector = e
        /\ handle[edge[e].target].connector = e

\* C8: when a vertex has been deleted, no handle of another vertex is still
\* connected to (has as conjugate) a handle of the deleted vertex.
C8_DeleteDetaches ==
    \A v \in V : (last.op = "delete" /\ last.a = v) =>
        \A h \in H :
            (handle[h].exists /\ handle[h].owner # v
             /\ handle[h].conjugate # None
             /\ handle[handle[h].conjugate].owner = v) => Baseline(h)

\* C9: after the resize affordance of a vertex was moved to d, the frame
\* bottom is the least value that is at least d, at least limit + margin
\* and at least y + margin for every handle y-offset of the vertex, that
\* is max(d, max(M, limit) + margin).
C9_ClampFormula ==
    last.op = "resize" =>
        LET v == last.a
            b == vertex[v].bottom
            cand == {last.d, vertex[v].limit + Margin}
                      \cup {handle[h].y + Margin : h \in Database(handle, v)}
        IN  b \in cand /\ \A c \in cand : c <= b

\* The clamp is decided by a handle below the floor limit: the affordance
\* was moved above it and the bottom is that handle's offset plus margin.
C9_Witness ==
    /\ last.op = "resize"
    /\ \E h \in Database(handle, last.a) :
           /\ handle[h].y > vertex[last.a].limit
           /\ vertex[last.a].bottom = handle[h].y + Margin
           /\ last.d < vertex[last.a].bottom

\* C10: after a resize the frame bottom is at least margin below every
\* handle of the vertex and at least margin below the floor limit.
C10_NeverAboveLowestHandle ==
    last.op = "resize" =>
        /\ \A h \in Database(handle, last.a) :
               vertex[last.a].bottom - handle[h].y >= Margin
        /\ vertex[last.a].bottom - vertex[last.a].limit >= Margin

\* The affordance was dragged above a handle of the vertex.
C10_Witness ==
    /\ last.op = "resize"
    /\ \E h \in Database(handle, last.a) : last.d < handle[h].y

\* The y-offsets of the handles of vertex v.
HandleYs(v) == {handle[h].y : h \in Database(handle, v)}

\* C11 as stated: after the resize affordance of a vertex with handles was
\* dragged to a position less than the lowest handle's offset plus margin,
\* the frame bottom is exactly that offset plus margin.
C11_ExactClampAtHandle ==
    (last.op = "resize" /\ HandleYs(last.a) # {}
       /\ last.d < SetMax(HandleYs(last.a)) + Margin) =>
        vertex[last.a].bottom = SetMax(HandleYs(last.a)) + Margin

\* C11 amended: under the same condition the frame bottom is exactly the
\* larger of the lowest handle's offset and the floor limit, plus margin.
C11_ExactClampAtHandleOrLimit ==
    (last.op = "resize" /\ HandleYs(last.a) # {}
       /\ last.d < SetMax(HandleYs(last.a)) + Margin) =>
        vertex[last.a].bottom =
            Max(SetMax(HandleYs(last.a)), vertex[last.a].limit) + Margin

\* A vertex whose lowest handle lies above the floor limit was dragged to
\* less than that handle's offset plus margin.
C11_Witness ==
    /\ last.op = "resize" /\ HandleYs(last.a) # {}
    /\ SetMax(HandleYs(last.a)) < vertex[last.a].limit
    /\ last.d < SetMax(HandleYs(last.a)) + Margin
    /\ vertex[last.a].bottom = vertex[last.a].limit + Margin

\* C12: after a resize of a vertex every handle of the vertex has ymax equal
\* to the new frame bottom less the margin and ymin equal to the top of the
\* input rail, and both rails end at the frame bottom less the margin.
C12_ReboundAfterResize ==
    last.op = "resize" =>
        /\ \A h \in Database(handle, last.a) :
               /\ handle[h].ymax = vertex[last.a].bottom - Margin
               /\ handle[h].ymin = AnchorTop
        /\ vertex[last.a].inpBottom = vertex[last.a].bottom - Margin
        /\ vertex[last.a].outBottom = vertex[last.a].bottom - Margin

\* A resize moved the frame bottom off its initial value while the vertex
\* has an input and an output handle.
C12_Witness ==
    /\ last.op = "resize"
    /\ vertex[last.a].bottom # FrameBottom + Margin
    /\ \E h, g \in Database(handle, last.a) :
           handle[h].role = "INP" /\ handle[g].role = "OUT"

\* C13: every handle at rest (no mouse button held on it) has its y-offset
\* within [ymin, ymax].
C13_HandleWithinBounds ==
    \A h \in H : (handle[h].exists /\ handle[h].buttons = {}) =>
        (handle[h].ymin <= handle[h].y /\ handle[h].y <= handle[h].ymax)

\* C14: every call of EventBus() and EventBus.instance() so far returned
\* the same object, the one the class holds; it exists from the first
\* access on and not before, it is the only EventBus object ever allocated,
\* and QObject.__init__ ran on it exactly once.
C14_Singleton ==
    /\ bus.objects <= 1 /\ bus.inits <= 1
    /\ (bus.returned = {}) <=> (bus.instance = None)
    /\ bus.returned # {} =>
           /\ bus.returned = {bus.instance}
           /\ bus.initialized = {bus.instance}
           /\ bus.objects = 1 /\ bus.inits = 1

\* The bus was accessed by more than one component and both a constructor
\* call or instance() and a subscription took place.
C14_Witness ==
    /\ bus.returned # {}
    /\ Len(bus.subs) >= 2

\* The positions of the bus trace, and the events of emission id in it.
Pos == 1..Len(bus.log)
EventsOf(id, ev) == SelectSeq(bus.log, LAMBDA e : e.ev = ev /\ e.id = id)

\* C15: when a send has returned, its message (the command and payload the
\* caller gave) was handed exactly once to every slot connected when it was
\* sent, in connection order, and every one of these handlers began and
\* ended between the send and its return.
C15_OrderedDelivery ==
    \A r \in Pos : bus.log[r].ev = "return" =>
        LET id == bus.log[r].id
            sp == CHOOSE p \in Pos :
                      bus.log[p].ev = "send" /\ bus.log[p].id = id
            begins == EventsOf(id, "begin")
            ends == EventsOf(id, "end")
        IN  /\ [i \in 1..Len(begins) |-> begins[i].slot] = bus.log[sp].slots
            /\ [i \in 1..Len(ends) |-> ends[i].slot] = bus.log[sp].slots
            /\ \A i \in 1..Len(begins) : begins[i].msg = bus.asked[id]
            /\ \A q \in Pos :
                   (bus.log[q].id = id /\ bus.log[q].ev \in {"begin", "end"})
                       => (sp < q /\ q < r)

\* A send to two subscribers has returned.
C15_Witness ==
    \E r \in Pos : /\ bus.log[r].ev = "return"
                    /\ Len(EventsOf(bus.log[r].id, "end")) >= 2
                    /\ BusIdle

\* C17: when a handler of emission m1 sends m2, no step of m1 (a further
\* delivery, a handler's end, the return) happens before the send of m2 has
\* returned, and when it returns every slot connected at that send has run
\* its handler for m2 to the end.
C17_ReentrantPublish ==
    \A p \in Pos : (bus.log[p].ev = "send" /\ bus.log[p].parent # 0) =>
        /\ \A q \in Pos : (q > p /\ bus.log[q].id = bus.log[p].parent) =>
               \E r \in (p + 1)..(q - 1) :
                   bus.log[r].ev = "return" /\ bus.log[r].id = bus.log[p].id
        /\ \A r \in Pos :
               (r > p /\ bus.log[r].ev = "return"
                      /\ bus.log[r].id = bus.log[p].id) =>
                   \A i \in 1..Len(bus.log[p].slots) :
                       \E q \in (p + 1)..(r - 1) :
                           /\ bus.log[q].ev = "end"
                           /\ bus.log[q].id = bus.log[p].id
                           /\ bus.log[q].slot = bus.log[p].slots[i]

\* A handler of m1 sent m2 while a later subscriber of m1 was still to be
\* served, and m1 has gone on after m2 returned.
C17_Witness ==
    \E p, q \in Pos :
        /\ bus.log[p].ev = "send" /\ bus.log[p].parent # 0
        /\ Len(bus.log[p].slots) >= 2
        /\ q > p /\ bus.log[q].ev = "begin"
        /\ bus.log[q].id = bus.log[p].parent

\* C16: the tab widget's handler, run on a message whose command is not
\* open_in_tab (another command, or none), leaves every tab widget as it
\* was: no page added or removed, no other page made current.
C16_UnrecognizedNoOp ==
    [][(/\ bus.stack # <<>>
        /\ bus.stack[Len(bus.stack)].kind = "handler"
        /\ bus.stack[Len(bus.stack)].slot.kind = "tab"
        /\ get_command(bus.stack[Len(bus.stack)].msg) # "open_in_tab")
           => tabs' = tabs]_vars

\* The handler of a tab widget that shows pages has just ended on a message
\* with another command.
C16_Witness ==
    /\ bus.log # <<>>
    /\ LET e == bus.log[Len(bus.log)]
       IN  /\ e.ev = "end" /\ e.slot.kind = "tab"
           /\ get_command(e.msg) # "open_in_tab"
           /\ tabs[e.slot.id].pages # <<>>
    /\ last.op = "ignored"

\* C20: after new_tab (called directly or by the handler of open_in_tab),
\* a widget that was already a page leaves the number of pages as it was
\* and its page is the current one; otherwise the number of pages grew by
\* one. No widget is a page twice, in one tab widget or in two.
C20_NewTabOnlyIfNotShown ==
    /\ last.op = "new_tab" =>
           LET t == tabs[last.a]
           IN  IF last.e >= 0
               THEN Len(t.pages) = last.d /\ t.current = last.e
               ELSE Len(t.pages) = last.d + 1
    /\ \A w1, w2 \in TW :
           \A i \in 1..Len(tabs[w1].pages), j \in 1..Len(tabs[w2].pages) :
               tabs[w1].pages[i] = tabs[w2].pages[j] => (w1 = w2 /\ i = j)

\* new_tab was called with a widget shown in a page other than the first
\* of a tab widget.
C20_Witness ==
    /\ last.op = "new_tab"
    /\ last.e >= 1
    /\ last.b # None

\* C18: no animation has start and end values that were assigned while it
\* was running: every operation that starts an animation stopped it first.
C18_StopBeforeAssign ==
    \A p \in Animations : ~anim[p].retargeted

\* C19: a tab widget that has had its first tab shows at least one tab and
\* at most max-tabs.
C19_TabCountBounds ==
    \A w \in TW : tabs[w].opened =>
        (1 <= Len(tabs[w].pages) /\ Len(tabs[w].pages) <= MaxTabs)

\* The handles in the input and in the output set of a vertex's database.
database_inp(v) == {h \in Database(handle, v) : handle[h].db = "inp"}
database_out(v) == {h \in Database(handle, v) : handle[h].db = "out"}

\* C21: a handle is in its vertex's input set exactly if its role is INP
\* and in the output set exactly if its role is OUT, the two sets share no
\* handle, and the handle create_handle made for the argument "INP" or
\* "OUT", string or HandleRole member, is the new handle of that role,
\* registered in that role's set.
C21_StringRole ==
    /\ \A v \in V :
           /\ database_inp(v) \cap database_out(v) = {}
           /\ database_inp(v) \cup database_out(v) = Database(handle, v)
           /\ \A h \in Database(handle, v) :
                  /\ h \in database_inp(v) <=> handle[h].role = "INP"
                  /\ h \in database_out(v) <=> handle[h].role = "OUT"
    /\ (last.op = "handle" /\ last.r \in {"INP", "OUT"}) =>
           handle[last.a] =
               [HandleInit(last.r, <<handle[last.a].x, handle[last.a].y>>,
                           handle[last.a].owner)
                   EXCEPT !.db = IF last.r = "INP" THEN "inp" ELSE "out"]

\* create_handle was just called with the string "INP" on a vertex that
\* already has an output handle.
C21_Witness ==
    /\ last.op = "handle" /\ last.m /\ last.r = "INP"
    /\ database_out(handle[last.a].owner) # {}

\* C22: computing the path of an edge again, its endpoints where they were
\* when it was last computed, leaves the cached route and the arrow as they
\* are.
C22_PathIdempotent ==
    [][(last'.op = "update_path" /\ last'.p) => edge' = edge]_vars

\* The path of an edge whose endpoints differ was computed again.
C22_Witness ==
    /\ last.op = "update_path" /\ last.p
    /\ edge[last.e].route.start # edge[last.e].route.end
    /\ edge[last.e].route.start # <<36, 0>>

\* C23: the curve an edge holds has, with k the slack s when
\* origin.x < target.x and -10 * s otherwise, the control points
\* (ox + (tx - ox) * k, oy + (ty - oy) / 4) and
\* (ox + (tx - ox) * (1 - k), ty - (ty - oy) / 4), and when it has just been
\* computed it starts at the origin and ends at the target.  (x is held
\* times the denominator of s, y times 4.)
C23_BackwardsSlack ==
    \A e \in E : (edge[e].exists /\ DOMAIN edge[e].route # {}) =>
        LET r == edge[e].route
            ox == r.start[1]
            oy == r.start[2]
            tx == r.end[1]
            ty == r.end[2]
            k == IF ox < tx THEN SlackNum ELSE (-10) * SlackNum
        IN  /\ (last.op \in {"edge", "update_path"} /\ last.e = e) =>
                   /\ r.start = scenePos(vertex, handle, edge[e].origin)
                   /\ r.end = scenePos(vertex, handle, edge[e].target)
            /\ r.c1 = <<SlackDen * ox + (tx - ox) * k, 4 * oy + (ty - oy)>>
            /\ r.c2 = <<SlackDen * ox + (tx - ox) * (SlackDen - k),
                        4 * ty - (ty - oy)>>

\* The path of an edge that runs backwards, its endpoints at different
\* heights, has just been computed.
C23_Witness ==
    /\ last.op = "update_path"
    /\ edge[last.e].route.start[1] > edge[last.e].route.end[1]
    /\ edge[last.e].route.start[2] # edge[last.e].route.end[2]

\* The cached route of every edge is the path between the scene positions
\* of its endpoints, and the arrow was placed on that route.
Coherent ==
    \A e \in E : edge[e].exists =>
        /\ DOMAIN edge[e].route # {}
        /\ edge[e].route =
               construct_path(scenePos(vertex, handle, edge[e].origin),
                              scenePos(vertex, handle, edge[e].target))
        /\ edge[e].arrow = edge[e].route

\* C24: after a handle or a vertex has moved and the notification was
\* handled, every edge's cached route is the path between its endpoints'
\* scene positions with the arrow at 60% of it; the move of a handle that
\* is no endpoint of an edge leaves that edge's route as it was.
C24_PathCacheCoherence ==
    /\ [](last.op \in {"setpos", "vertex_move"} => Coherent)
    /\ [][\A e \in E :
             (/\ last'.op = "setpos"
              /\ edge[e].exists
              /\ last'.a \notin {edge[e].origin, edge[e].target})
                 => edge'[e] = edge[e]]_vars

\* C25: serialize_to_dict of a vertex with any number of input and output
\* handles succeeds and returns one entry per input handle and one per
\* output handle.
C25_VertexSerialization ==
    last.op = "serialize" =>
        /\ ~last.m
        /\ last.d = Cardinality(database_inp(last.a))
        /\ last.b = Cardinality(database_out(last.a))

\* C27: is_connectable is true for a connected handle; for a handle that is
\* not connected it is true exactly when the handle has no pending
\* connections; and a handle that an edge was made with, and that was not
\* freed since (the edge is still its connector), does not report
\* connectable.
C27_OneShotConnectable ==
    \A h \in H : handle[h].exists =>
        /\ handle[h].connected => is_connectable(handle[h])
        /\ ~handle[h].connected =>
               (is_connectable(handle[h]) <=> handle[h].connections = {})
        /\ (\E e \in E : /\ edge[e].exists
                          /\ h \in {edge[e].origin, edge[e].target}
                          /\ handle[h].connector = e)
               => ~is_connectable(handle[h])

\* C28: between operations, the conjugate of every connected handle h has h
\* as its conjugate and the connector of h as its connector.
C28_ConjugateSymmetry ==
    Idle => \A h \in H : (handle[h].exists /\ handle[h].connected) =>
        /\ handle[handle[h].conjugate].conjugate = h
        /\ handle[handle[h].conjugate].connector = handle[h].connector

\* C30: every run of on_resize_handle_moved, from the construction of a
\* vertex or from a drag of its resize affordance to any position, returns
\* after at most three invocations of the handler (the outer one and those
\* re-entered from setX and setY), with the affordance at x = 0 and
\* y = frame bottom.
C30_ResizeReentryTerminates ==
    last.op \in {"vertex", "resize"} =>
        /\ last.n >= 1 /\ last.n <= 3
        /\ vertex[last.a].resizeX = 0
        /\ vertex[last.a].resizeY = vertex[last.a].bottom

\* The affordance of a vertex with a handle was dragged sideways to a height
\* above the clamp: the handler ran three times.
C30_Witness ==
    /\ last.op = "resize" /\ last.n = 3
    /\ Database(handle, last.a) # {}
    /\ vertex[last.a].bottom # last.d

\* C26: a left click on a handle is announced exactly when the handle is
\* not connected, no other click is announced, and the pending connection
\* is never armed with a connected handle.
C26_PendingConnection ==
    /\ last.op = "press" => (last.m <=> (~last.p /\ last.r = "left"))
    /\ canvas.state = "ARMED" => ~handle[canvas.pending].connected

\* C29: a left click on a handle that is not connected, its vertex on the
\* canvas, runs begin_transient exactly once.
C29_ExactlyOnceClick ==
    (last.op = "press" /\ last.m) => last.n = 1
====
